---- MODULE Spec2Model ----
(***************************************************************************)
(* Streaming render core of markstream-cli: the anchored text surface      *)
(* (packages/terminal/src/terminal.ts) and the markdown stream renderer    *)
(* (createMarkdownStreamRenderer in src/stream-to-terminal.ts), together   *)
(* with a VT100 screen that receives every emitted patch.                  *)
(*                                                                         *)
(* Text is a sequence of characters.  A character is a one-element string, *)
(* except for the named control characters below and the fence, which is   *)
(* kept as one unit (three backticks never arrive split).                  *)
(***************************************************************************)
EXTENDS Integers, Sequences, FiniteSets, TLC

ESC == "ESC"
NL == "NL"
CR == "CR"
FENCE == "FENCE"
COMMENT == "<!--"
BSLASH == "BSLASH"
SPACE == " "
TAB == "TAB"

Digits == <<"0", "1", "2", "3", "4", "5", "6", "7", "8", "9">>

(* ---------------------------------------------------------------------- *)
(* JavaScript string primitives on character sequences (0-based indices)   *)
(* ---------------------------------------------------------------------- *)

Min(a, b) == IF a < b THEN a ELSE b
Max(a, b) == IF a > b THEN a ELSE b

\* String.prototype.slice(from, to) for 0 <= from
Slice(s, from, to) == SubSeq(s, Min(from, Len(s)) + 1, Min(to, Len(s)))

\* String.prototype.slice(from)
SliceFrom(s, from) == SubSeq(s, Min(from, Len(s)) + 1, Len(s))

\* String.prototype.startsWith
StartsWith(s, p) == Len(p) <= Len(s) /\ SubSeq(s, 1, Len(p)) = p

\* String.prototype.lastIndexOf(ch, from): last index <= from holding ch, or -1
LastIndexOf(s, ch, from) ==
  LET hits == {i \in 0..Min(from, Len(s) - 1) : s[i + 1] = ch}
  IN IF hits = {} THEN -1 ELSE CHOOSE i \in hits : \A j \in hits : j <= i

\* String.prototype.indexOf(ch, from): first index >= from holding ch, or -1
IndexOf(s, ch, from) ==
  LET hits == {i \in from..(Len(s) - 1) : s[i + 1] = ch}
  IN IF hits = {} THEN -1 ELSE CHOOSE i \in hits : \A j \in hits : i <= j

\* String.prototype.split('\n')
RECURSIVE SplitLines(_)
SplitLines(s) ==
  LET i == IndexOf(s, NL, 0)
  IN IF i = -1 THEN <<s>>
     ELSE <<Slice(s, 0, i)>> \o SplitLines(SliceFrom(s, i + 1))

\* Array.prototype.join('\n')
RECURSIVE JoinLines(_)
JoinLines(ls) ==
  IF Len(ls) = 0 THEN <<>>
  ELSE IF Len(ls) = 1 THEN ls[1]
  ELSE ls[1] \o <<NL>> \o JoinLines(Tail(ls))

IsWhitespace(ch) == ch \in {NL, CR, SPACE, TAB}

\* String.prototype.trimEnd
RECURSIVE TrimEnd(_)
TrimEnd(s) ==
  IF Len(s) > 0 /\ IsWhitespace(s[Len(s)]) THEN TrimEnd(SubSeq(s, 1, Len(s) - 1)) ELSE s

\* s.replace(/\n$/, '')
StripTrailingNewline(s) ==
  IF Len(s) > 0 /\ s[Len(s)] = NL THEN SubSeq(s, 1, Len(s) - 1) ELSE s

\* decimal digits of n >= 0, as template literals print a number
RECURSIVE NumToChars(_)
NumToChars(n) ==
  IF n < 10 THEN <<Digits[n + 1]>> ELSE NumToChars(n \div 10) \o <<Digits[(n % 10) + 1]>>

(* ---------------------------------------------------------------------- *)
(* packages/terminal/src/terminal.ts: control sequences and text scanning  *)
(* ---------------------------------------------------------------------- *)

saveCursor == <<ESC, "7", ESC, "[", "s">>
restoreCursor == <<ESC, "8", ESC, "[", "u">>
eraseToEnd == <<ESC, "[", "J">>
eraseLineToEnd == <<ESC, "[", "K">>
cursorHome == <<ESC, "[", "H">>
cursorDown(n) == <<ESC, "[">> \o NumToChars(Max(1, n)) \o <<"B">>
cursorForward(n) == <<ESC, "[">> \o NumToChars(Max(1, n)) \o <<"C">>
carriageReturn == <<CR>>

\* characters whose code lies outside 0x40..0x7E (they do not end a CSI sequence)
NonFinalChars == {ESC, NL, CR, SPACE, TAB, COMMENT, "?", ";"} \cup {Digits[i] : i \in 1..10}

IsCsiFinal(ch) == ch \notin NonFinalChars

\* skipAnsi: index after the escape sequence at `start`, or -1 (null) when none starts there
RECURSIVE CsiEnd(_, _)
CsiEnd(text, i) ==
  IF i >= Len(text) THEN Len(text)
  ELSE IF IsCsiFinal(text[i + 1]) THEN i + 1
  ELSE CsiEnd(text, i + 1)

skipAnsi(text, start) ==
  IF start >= Len(text) \/ text[start + 1] # ESC THEN -1
  ELSE IF start + 1 < Len(text) /\ text[start + 2] = "[" THEN CsiEnd(text, start + 2)
  ELSE IF start + 1 < Len(text) THEN start + 2
  ELSE -1

RECURSIVE StripFrom(_, _)
StripFrom(text, i) ==
  IF i >= Len(text) THEN <<>>
  ELSE IF text[i + 1] = CR THEN StripFrom(text, i + 1)
  ELSE IF skipAnsi(text, i) # -1 THEN StripFrom(text, skipAnsi(text, i))
  ELSE <<text[i + 1]>> \o StripFrom(text, i + 1)

stripAnsi(text) == StripFrom(text, 0)

RECURSIVE VisibleFrom(_, _)
VisibleFrom(text, i) ==
  IF i >= Len(text) THEN 0
  ELSE IF text[i + 1] = CR THEN VisibleFrom(text, i + 1)
  ELSE IF skipAnsi(text, i) # -1 THEN VisibleFrom(text, skipAnsi(text, i))
  ELSE 1 + VisibleFrom(text, i + 1)

\* visibleLength that counts the carriage returns too
RECURSIVE VisibleWithCrFrom(_, _)
VisibleWithCrFrom(text, i) ==
  IF i >= Len(text) THEN 0
  ELSE IF skipAnsi(text, i) # -1 THEN VisibleWithCrFrom(text, skipAnsi(text, i))
  ELSE 1 + VisibleWithCrFrom(text, i + 1)

visibleLengthWithCr(text) == VisibleWithCrFrom(text, 0)

visibleLength(text) == VisibleFrom(text, 0)

NoPos == [line |-> 0, column |-> 0]

\* first loop of indexToPos: <<line, lastNl>> after scanning [i, clamped)
RECURSIVE ScanLines(_, _, _, _, _)
ScanLines(text, i, clamped, line, lastNl) ==
  IF i >= clamped THEN <<line, lastNl>>
  ELSE IF skipAnsi(text, i) # -1 THEN ScanLines(text, skipAnsi(text, i), clamped, line, lastNl)
  ELSE IF text[i + 1] = NL THEN ScanLines(text, i + 1, clamped, line + 1, i)
  ELSE ScanLines(text, i + 1, clamped, line, lastNl)

\* second loop of indexToPos: the column after scanning [i, clamped)
RECURSIVE ScanColumn(_, _, _, _)
ScanColumn(text, i, clamped, column) ==
  IF i >= clamped THEN column
  ELSE IF skipAnsi(text, i) # -1 THEN ScanColumn(text, skipAnsi(text, i), clamped, column)
  ELSE ScanColumn(text, i + 1, clamped, column + 1)

indexToPos(text, index) ==
  LET clamped == Max(0, Min(index, Len(text)))
      ln == ScanLines(text, 0, clamped, 1, -1)
  IN [line |-> ln[1], column |-> ScanColumn(text, ln[2] + 1, clamped, 1)]

RECURSIVE PosScan(_, _, _, _, _, _)
PosScan(text, line, column, i, currentLine, visibleCol) ==
  IF i >= Len(text) THEN Len(text)
  ELSE IF currentLine = line /\ visibleCol >= column THEN i
  ELSE IF skipAnsi(text, i) # -1
    THEN PosScan(text, line, column, skipAnsi(text, i), currentLine, visibleCol)
  ELSE IF text[i + 1] = NL
    THEN IF currentLine + 1 > line THEN i + 1
         ELSE PosScan(text, line, column, i + 1, currentLine + 1, 1)
  ELSE PosScan(text, line, column, i + 1, currentLine,
               IF currentLine = line THEN visibleCol + 1 ELSE visibleCol)

\* posToIndex that counts the columns of a line from 0
posToIndexFromZero(text, pos) == PosScan(text, Max(1, pos.line), Max(1, pos.column), 0, 1, 0)

posToIndex(text, pos) == PosScan(text, Max(1, pos.line), Max(1, pos.column), 0, 1, 1)

\* rendered.replace(/\n/g, EL + '\n')
RECURSIVE withEraseLineToEnd(_)
withEraseLineToEnd(rendered) ==
  IF Len(rendered) = 0 THEN <<>>
  ELSE (IF rendered[1] = NL THEN eraseLineToEnd \o <<NL>> ELSE <<rendered[1]>>)
       \o withEraseLineToEnd(Tail(rendered))

(* ---------------------------------------------------------------------- *)
(* Anchored text surface.  A surface is [text, anchored]; every operation  *)
(* returns the surface after it and the patch to write to the terminal.    *)
(* ---------------------------------------------------------------------- *)

SurfaceInit == [text |-> <<>>, anchored |-> FALSE]

\* moveTo with the row offset taken as the line itself instead of line - 1
moveToDownByLine(anchor, pos) ==
  LET line == Max(1, pos.line)
      column == Max(1, pos.column)
      down == line
      right == column - 1
      base == IF anchor = "home" THEN cursorHome ELSE restoreCursor
  IN base
     \o (IF down > 0 THEN cursorDown(down) \o carriageReturn ELSE <<>>)
     \o (IF right > 0 THEN cursorForward(right) ELSE <<>>)

\* moveTo that moves from wherever the cursor is, without returning to the origin
moveToFromCursor(anchor, pos) ==
  LET line == Max(1, pos.line)
      column == Max(1, pos.column)
      down == line - 1
      right == column - 1
  IN (IF down > 0 THEN cursorDown(down) \o carriageReturn ELSE <<>>)
     \o (IF right > 0 THEN cursorForward(right) ELSE <<>>)

moveTo(anchor, pos) ==
  LET line == Max(1, pos.line)
      column == Max(1, pos.column)
      down == line - 1
      right == column - 1
      base == IF anchor = "home" THEN cursorHome ELSE restoreCursor
  IN base
     \o (IF down > 0 THEN cursorDown(down) \o carriageReturn ELSE <<>>)
     \o (IF right > 0 THEN cursorForward(right) ELSE <<>>)

SurfaceBegin(anchor, sf) ==
  [text |-> sf.text, anchored |-> TRUE,
   patch |-> IF anchor = "home" THEN cursorHome ELSE carriageReturn \o saveCursor]

\* setText whose first patch is the begin prologue and the decorated text in
\* either mode, with no erase to the end of the screen
SurfaceSetTextNoFirstErase(anchor, sf, nextText) ==
  [text |-> nextText, anchored |-> TRUE,
   patch |->
     IF ~sf.anchored
       THEN (IF anchor = "home" THEN cursorHome ELSE carriageReturn \o saveCursor)
            \o withEraseLineToEnd(nextText)
       ELSE (IF anchor = "home" THEN cursorHome ELSE restoreCursor)
            \o withEraseLineToEnd(nextText) \o eraseToEnd]

SurfaceSetText(anchor, sf, nextText) ==
  [text |-> nextText, anchored |-> TRUE,
   patch |->
     IF ~sf.anchored
       THEN IF anchor = "home"
              THEN cursorHome \o withEraseLineToEnd(nextText) \o eraseToEnd
              ELSE carriageReturn \o saveCursor \o withEraseLineToEnd(nextText)
       ELSE (IF anchor = "home" THEN cursorHome ELSE restoreCursor)
            \o withEraseLineToEnd(nextText) \o eraseToEnd]

\* append that also erases below the appended text once anchored
SurfaceAppendErases(anchor, sf, delta) ==
  IF Len(delta) = 0 THEN [text |-> sf.text, anchored |-> sf.anchored, patch |-> <<>>]
  ELSE [text |-> sf.text \o delta, anchored |-> TRUE,
        patch |->
          IF ~sf.anchored
            THEN IF anchor = "home" THEN cursorHome \o delta
                 ELSE carriageReturn \o saveCursor \o delta
            ELSE delta \o eraseToEnd]

\* append that forgets to extend the text it tracks once anchored
SurfaceAppendForgets(anchor, sf, delta) ==
  IF Len(delta) = 0 THEN [text |-> sf.text, anchored |-> sf.anchored, patch |-> <<>>]
  ELSE [text |-> IF sf.anchored THEN sf.text ELSE sf.text \o delta, anchored |-> TRUE,
        patch |->
          IF ~sf.anchored
            THEN IF anchor = "home" THEN cursorHome \o delta
                 ELSE carriageReturn \o saveCursor \o delta
            ELSE delta]

\* append that treats an empty delta as any other one
SurfaceAppendAnchorsEmpty(anchor, sf, delta) ==
  [text |-> sf.text \o delta, anchored |-> TRUE,
   patch |->
     IF ~sf.anchored
       THEN IF anchor = "home" THEN cursorHome \o delta
            ELSE carriageReturn \o saveCursor \o delta
       ELSE delta]

SurfaceAppend(anchor, sf, delta) ==
  IF Len(delta) = 0 THEN [text |-> sf.text, anchored |-> sf.anchored, patch |-> <<>>]
  ELSE [text |-> sf.text \o delta, anchored |-> TRUE,
        patch |->
          IF ~sf.anchored
            THEN IF anchor = "home" THEN cursorHome \o delta
                 ELSE carriageReturn \o saveCursor \o delta
            ELSE delta]

\* setTextFrom that sends the whole next text from the position
SurfaceSetTextFromSendsAll(anchor, sf, nextText, from) ==
  [text |-> nextText, anchored |-> TRUE,
   patch |->
     IF ~sf.anchored
       THEN IF anchor = "home"
              THEN cursorHome \o withEraseLineToEnd(nextText) \o eraseToEnd
              ELSE carriageReturn \o saveCursor \o withEraseLineToEnd(nextText)
       ELSE moveTo(anchor, from) \o withEraseLineToEnd(nextText) \o eraseToEnd]

SurfaceSetTextFrom(anchor, sf, nextText, from) ==
  [text |-> nextText, anchored |-> TRUE,
   patch |->
     IF ~sf.anchored
       THEN IF anchor = "home"
              THEN cursorHome \o withEraseLineToEnd(nextText) \o eraseToEnd
              ELSE carriageReturn \o saveCursor \o withEraseLineToEnd(nextText)
       ELSE moveTo(anchor, from)
            \o withEraseLineToEnd(SliceFrom(nextText, posToIndex(sf.text, from)))
            \o eraseToEnd]

\* normalizeRange that takes the end of the range as exclusive
normalizeRangeEndExclusive(text, range) ==
  LET startIndex == posToIndex(text, range.start)
      endIndexInclusive == posToIndex(text, range.end)
  IN [start |-> Min(startIndex, endIndexInclusive),
      endExclusive |-> Min(Len(text), Max(startIndex, endIndexInclusive))]

\* a range is [start, end], two positions, both inclusive
normalizeRange(text, range) ==
  LET startIndex == posToIndex(text, range.start)
      endIndexInclusive == posToIndex(text, range.end)
  IN [start |-> Min(startIndex, endIndexInclusive),
      endExclusive |-> Min(Len(text), Max(startIndex, endIndexInclusive) + 1)]

applyReplace(text, range, replacement) ==
  Slice(text, 0, normalizeRange(text, range).start)
  \o replacement
  \o SliceFrom(text, normalizeRange(text, range).endExclusive)

\* applyInsert that puts the insertion at the end of the text
applyInsertAtEnd(text, at, insertion) == text \o insertion

applyInsert(text, at, insertion) ==
  Slice(text, 0, posToIndex(text, at)) \o insertion \o SliceFrom(text, posToIndex(text, at))

SurfaceInsert(anchor, sf, at, insertion) ==
  IF Len(insertion) = 0 THEN [text |-> sf.text, anchored |-> sf.anchored, patch |-> <<>>]
  ELSE [text |-> applyInsert(sf.text, at, insertion), anchored |-> TRUE,
        patch |->
          IF ~sf.anchored
            THEN carriageReturn \o saveCursor
                 \o withEraseLineToEnd(applyInsert(sf.text, at, insertion))
            ELSE moveTo(anchor, at)
                 \o withEraseLineToEnd(SliceFrom(applyInsert(sf.text, at, insertion),
                                                 posToIndex(sf.text, at)))
                 \o eraseToEnd]

SurfaceReplace(anchor, sf, range, replacement) ==
  IF ~sf.anchored THEN SurfaceSetText(anchor, sf, applyReplace(sf.text, range, replacement))
  ELSE [text |-> applyReplace(sf.text, range, replacement), anchored |-> TRUE,
        patch |->
          moveTo(anchor, indexToPos(applyReplace(sf.text, range, replacement),
                                    normalizeRange(sf.text, range).start))
          \o withEraseLineToEnd(SliceFrom(applyReplace(sf.text, range, replacement),
                                          normalizeRange(sf.text, range).start))
          \o eraseToEnd]

SurfaceDelete(anchor, sf, range) == SurfaceReplace(anchor, sf, range, <<>>)

(* ---------------------------------------------------------------------- *)
(* Input normaliser                                                        *)
(* ---------------------------------------------------------------------- *)

\* (^|\n)([\t ]*) matches just before index i
RECURSIVE LineLeading(_, _)
LineLeading(s, i) ==
  IF i = 0 THEN TRUE
  ELSE IF s[i] = NL THEN TRUE
  ELSE IF s[i] \in {SPACE, TAB} THEN LineLeading(s, i - 1)
  ELSE FALSE

RECURSIVE NormalizeFrom(_, _)
NormalizeFrom(s, i) ==
  IF i >= Len(s) THEN <<>>
  ELSE (IF s[i + 1] = COMMENT /\ LineLeading(s, i) THEN <<BSLASH, COMMENT>> ELSE <<s[i + 1]>>)
       \o NormalizeFrom(s, i + 1)

normalizeMarkdownInput(markdown) == NormalizeFrom(markdown, 0)

(* ---------------------------------------------------------------------- *)
(* Parser (stream-markdown-parser, an external library): paragraphs and    *)
(* fenced code blocks.  A node is [type, text, language, code, loading].   *)
(* ---------------------------------------------------------------------- *)

ParagraphNode(lines) ==
  [type |-> "paragraph", text |-> JoinLines(lines), language |-> <<>>, code |-> <<>>,
   loading |-> FALSE]

CodeBlockNode(language, code, loading) ==
  [type |-> "code_block", text |-> <<>>, language |-> language, code |-> code,
   loading |-> loading]

\* a backslash before the comment opener is an escape: the text keeps the opener only
RECURSIVE Unescape(_)
Unescape(line) ==
  IF Len(line) = 0 THEN <<>>
  ELSE IF Len(line) > 1 /\ line[1] = BSLASH /\ line[2] = COMMENT
    THEN <<COMMENT>> \o Unescape(SubSeq(line, 3, Len(line)))
  ELSE <<line[1]>> \o Unescape(Tail(line))

RECURSIVE TerminateLines(_)
TerminateLines(ls) ==
  IF Len(ls) = 0 THEN <<>> ELSE ls[1] \o <<NL>> \o TerminateLines(Tail(ls))

FlushParagraph(nodes, mode, acc) ==
  IF mode = "para" THEN Append(nodes, ParagraphNode(acc)) ELSE nodes

RECURSIVE ParseFrom(_, _, _, _, _, _)
ParseFrom(lines, i, nodes, mode, acc, lang) ==
  IF i > Len(lines)
    THEN IF mode = "code" THEN Append(nodes, CodeBlockNode(lang, JoinLines(acc), TRUE))
         ELSE FlushParagraph(nodes, mode, acc)
  ELSE LET line == lines[i] IN
    IF mode = "code"
      THEN IF line = <<FENCE>>
             THEN ParseFrom(lines, i + 1,
                            Append(nodes, CodeBlockNode(lang, TerminateLines(acc), FALSE)),
                            "none", <<>>, <<>>)
             ELSE ParseFrom(lines, i + 1, nodes, "code", Append(acc, line), lang)
    ELSE IF Len(line) > 0 /\ line[1] = FENCE
      THEN ParseFrom(lines, i + 1, FlushParagraph(nodes, mode, acc), "code", <<>>, Tail(line))
    ELSE IF Len(line) = 0
      THEN ParseFrom(lines, i + 1, FlushParagraph(nodes, mode, acc), "none", <<>>, <<>>)
    ELSE ParseFrom(lines, i + 1, nodes, "para", Append(acc, Unescape(line)), <<>>)

parseMarkdownToStructure(markdown) ==
  IF Len(markdown) = 0 THEN <<>>
  ELSE ParseFrom(SplitLines(markdown), 1, <<>>, "none", <<>>, <<>>)

(* ---------------------------------------------------------------------- *)
(* Highlighter and highlight cache                                         *)
(* ---------------------------------------------------------------------- *)

Upper(ch) == IF ch = "x" THEN "X" ELSE IF ch = "y" THEN "Y" ELSE ch

\* the user-supplied highlightCode: a colour escape, the language, the code in capitals
HighlightCode(code, language) ==
  <<ESC, "[", "m">> \o language \o [i \in 1..Len(code) |-> Upper(code[i])] \o <<NL>>

highlightKey(code, language) == language \o <<"NUL">> \o StripTrailingNewline(code)

CacheHas(cache, key) == \E e \in cache : e.key = key
CacheGet(cache, key) == (CHOOSE e \in cache : e.key = key).value
CacheSet(cache, key, value) == {e \in cache : e.key # key} \cup {[key |-> key, value |-> value]}

(* ---------------------------------------------------------------------- *)
(* Markdown to ANSI renderer (render.ts), colour off                       *)
(* ---------------------------------------------------------------------- *)

\* index of the last block when it is a loading code block, else 0
findStreamingLoadingCodeBlock(nodes) ==
  IF Len(nodes) > 0 /\ nodes[Len(nodes)].type = "code_block" /\ nodes[Len(nodes)].loading
    THEN Len(nodes) ELSE 0

renderPlainCode(code) == code

\* hl is [mode, cache]: "none" (no highlightCode), "cache" (the renderer's cache-backed
\* lookup) or "direct" (the highlighter itself, its result resolved)
renderCodeBlockBody(code, language, hl) ==
  IF hl.mode = "none" THEN renderPlainCode(code)
  ELSE IF hl.mode = "cache" /\ ~CacheHas(hl.cache, highlightKey(code, language))
    THEN renderPlainCode(code)
  ELSE StripTrailingNewline(
         IF hl.mode = "cache" THEN CacheGet(hl.cache, highlightKey(code, language))
         ELSE HighlightCode(code, language))

renderCodeBlock(node, isStreamingLoading, hl) ==
  LET fence == <<FENCE>> \o node.language
      code == StripTrailingNewline(node.code)
  IN IF isStreamingLoading
       THEN IF Len(code) > 0 THEN fence \o <<NL>> \o code \o <<NL>> ELSE fence \o <<NL>>
       ELSE LET body == renderCodeBlockBody(code, node.language, hl)
            IN IF Len(body) > 0
                 THEN fence \o <<NL>> \o body \o <<NL, FENCE, NL, NL>>
                 ELSE fence \o <<NL, FENCE, NL, NL>>

renderParagraph(node) == node.text \o <<NL, NL>>

RECURSIVE renderBlockNodes(_, _, _, _)
renderBlockNodes(nodes, i, loadingIdx, hl) ==
  IF i > Len(nodes) THEN <<>>
  ELSE (IF nodes[i].type = "code_block"
          THEN renderCodeBlock(nodes[i], nodes[i].loading /\ loadingIdx = i, hl)
          ELSE renderParagraph(nodes[i]))
       \o renderBlockNodes(nodes, i + 1, loadingIdx, hl)

renderNodesToAnsi(nodes, streaming, hl) ==
  TrimEnd(renderBlockNodes(nodes, 1,
                           IF streaming THEN findStreamingLoadingCodeBlock(nodes) ELSE 0, hl))
  \o <<NL>>

\* index.ts: the one-shot render
highlightMarkdown(content, streaming, hl) ==
  renderNodesToAnsi(parseMarkdownToStructure(normalizeMarkdownInput(content)), streaming, hl)

(* ---------------------------------------------------------------------- *)
(* VT100 screen that the patches are written to.  A terminal is            *)
(* [rows, r, c, sr, sc]: the rows of visible characters, the cursor and    *)
(* the saved cursor (1-based).  A line feed starts the next row at column  *)
(* one (the tty maps NL to CR LF); the screen is as tall and wide as       *)
(* needed, so nothing scrolls or wraps.                                    *)
(* ---------------------------------------------------------------------- *)

TermInit == [rows |-> <<>>, r |-> 1, c |-> 1, sr |-> 1, sc |-> 1]

Blanks(n) == [i \in 1..n |-> SPACE]

RowAt(t, r) == IF r <= Len(t.rows) THEN t.rows[r] ELSE <<>>

TermPut(t, ch) ==
  LET rows1 == t.rows \o [i \in 1..(t.r - Len(t.rows)) |-> <<>>]
      row == rows1[t.r]
      padded == IF Len(row) < t.c - 1 THEN row \o Blanks(t.c - 1 - Len(row)) ELSE row
      row1 == SubSeq(padded, 1, t.c - 1) \o <<ch>> \o SubSeq(padded, t.c + 1, Len(padded))
  IN [t EXCEPT !.rows = [rows1 EXCEPT ![t.r] = row1], !.c = t.c + 1]

TermEraseLine(t) ==
  IF t.r > Len(t.rows) THEN t
  ELSE [t EXCEPT !.rows = [t.rows EXCEPT ![t.r] = SubSeq(t.rows[t.r], 1, Min(t.c - 1, Len(t.rows[t.r])))]]

TermEraseDown(t) ==
  LET t1 == TermEraseLine(t)
  IN [t1 EXCEPT !.rows = SubSeq(t1.rows, 1, Min(t.r, Len(t1.rows)))]

RECURSIVE CharsToNum(_, _)
CharsToNum(chars, acc) ==
  IF Len(chars) = 0 THEN acc
  ELSE CharsToNum(Tail(chars),
                  acc * 10 + ((CHOOSE d \in 1..10 : Digits[d] = chars[1]) - 1))

\* the count of a cursor movement: a missing or zero parameter means one
CsiCount(params) == IF Len(params) = 0 THEN 1 ELSE Max(1, CharsToNum(params, 0))

TermCsi(t, params, final) ==
  CASE final = "H" -> [t EXCEPT !.r = 1, !.c = 1]
    [] final = "K" -> TermEraseLine(t)
    [] final = "J" -> TermEraseDown(t)
    [] final = "B" -> [t EXCEPT !.r = t.r + CsiCount(params)]
    [] final = "E" -> [t EXCEPT !.r = t.r + CsiCount(params), !.c = 1]
    [] final = "C" -> [t EXCEPT !.c = t.c + CsiCount(params)]
    [] final = "s" -> [t EXCEPT !.sr = t.r, !.sc = t.c]
    [] final = "u" -> [t EXCEPT !.r = t.sr, !.c = t.sc]
    [] OTHER -> t

RECURSIVE TermFeed(_, _, _)
TermFeed(t, patch, i) ==
  IF i >= Len(patch) THEN t
  ELSE LET ch == patch[i + 1] IN
    IF ch = ESC
      THEN IF i + 1 >= Len(patch) THEN t
           ELSE IF patch[i + 2] = "["
             THEN LET end == CsiEnd(patch, i + 2)
                  IN IF end > i + 2 /\ IsCsiFinal(patch[end])
                       THEN TermFeed(TermCsi(t, Slice(patch, i + 2, end - 1), patch[end]), patch, end)
                       ELSE t
           ELSE IF patch[i + 2] = "7"
             THEN TermFeed([t EXCEPT !.sr = t.r, !.sc = t.c], patch, i + 2)
           ELSE IF patch[i + 2] = "8"
             THEN TermFeed([t EXCEPT !.r = t.sr, !.c = t.sc], patch, i + 2)
           ELSE TermFeed(t, patch, i + 2)
    ELSE IF ch = CR THEN TermFeed([t EXCEPT !.c = 1], patch, i + 1)
    ELSE IF ch = NL THEN TermFeed([t EXCEPT !.r = t.r + 1, !.c = 1], patch, i + 1)
    ELSE TermFeed(TermPut(t, ch), patch, i + 1)

TermWrite(t, patch) == TermFeed(t, patch, 0)

RECURSIVE DropTrailingEmpty(_)
DropTrailingEmpty(ls) ==
  IF Len(ls) > 0 /\ ls[Len(ls)] = <<>> THEN DropTrailingEmpty(SubSeq(ls, 1, Len(ls) - 1)) ELSE ls

\* visible text of the screen and of a string, as lines without trailing empty lines
ScreenLines(t) == DropTrailingEmpty(t.rows)
TextLines(text) == DropTrailingEmpty(SplitLines(stripAnsi(text)))

(* ---------------------------------------------------------------------- *)
(* Bounds and inputs                                                       *)
(* ---------------------------------------------------------------------- *)

\* longest chunk one push may carry, in characters
MaxChunk == 3

\* the documents that are streamed; a push may cut them anywhere
Doc1 == <<FENCE, "t", NL, "x", NL, FENCE>>
Doc2 == <<"a", NL, NL, FENCE, NL, "x", NL, "y", NL, FENCE, NL, "b">>
Doc3 == <<FENCE, NL, "x", NL, FENCE, NL, FENCE, NL, "x", NL, FENCE, NL>>
Doc4 == <<FENCE, NL, "x", FENCE, NL, FENCE, "y", NL, FENCE>>
Doc5 == <<"a", "b", NL, COMMENT, "a", NL>>
Doc6 == <<"a", NL, FENCE, NL, FENCE, NL, "b">>
Docs == {Doc1, Doc2, Doc3, Doc4, Doc5, Doc6}

ViewportOptions == {[set |-> FALSE, n |-> 0], [set |-> TRUE, n |-> 0], [set |-> TRUE, n |-> 2]}

\* the option records a renderer is created with; fullRedrawOnMismatch is read under
\* the smart strategy only, so redraw is taken with the stricter value
Options ==
  {o \in [strategy : {"smart", "redraw"},
          anchor : {"cursor", "home"},
          viewport : ViewportOptions,
          fullRedrawOnMismatch : BOOLEAN,
          highlighter : {"none", "sync", "async"}] :
     o.strategy = "redraw" => ~o.fullRedrawOnMismatch}

(* ---------------------------------------------------------------------- *)
(* Stream renderer state                                                   *)
(* ---------------------------------------------------------------------- *)

VARIABLES
  options,              \* MarkdownStreamRendererOptions, fixed at construction
  content,
  lastCodeWasLoading,
  codeStartPos,
  surface,
  lastFullRendered,
  highlightCache,
  inflightHighlights,   \* keys of the inflightHighlights map
  pending,              \* the pending highlight tasks, oldest first
  patchQueue,
  term,                 \* the screen the caller writes every patch to
  delivered,            \* the patches handed to onPatch since the last flush or reset
  flushing,             \* the flush() call in progress, NoFlush when there is none
  unhandled,            \* promise rejections that no handler received
  resets,               \* reset() calls so far
  calls,                \* calls made on the surface directly
  calc,                 \* the text function applied last, its arguments and results
  session,              \* the streamMarkdownToTerminal call and its terminal stream
  ev                    \* what the last operation did and returned

vars == <<options, content, lastCodeWasLoading, codeStartPos, surface, lastFullRendered,
          highlightCache, inflightHighlights, pending, patchQueue, term, delivered,
          flushing, unhandled, resets, calls, calc, session, ev>>

\* a highlight task: the key and arguments of the call and the start position its
\* closure holds; with it, what the push that created it found and did: the surface
\* (base, baseAnchored), whether the key was missing from the cache (fresh), whether the
\* push appended (appended), whether a push or another completion has run since
\* (stale), whether a flush in progress awaits it (awaited) and whether a reset has
\* been called since (orphan)
NoTask ==
  [kind |-> "none", key |-> <<>>, code |-> <<>>, language |-> <<>>, startPos |-> NoPos,
   base |-> <<>>, baseAnchored |-> FALSE, fresh |-> FALSE, appended |-> FALSE,
   stale |-> FALSE, awaited |-> FALSE, orphan |-> FALSE]

\* a flush() call in progress: whether it found a task pending (found) and whether it
\* was called right after a flush returned (again)
NoFlush == [on |-> FALSE, found |-> FALSE, again |-> FALSE]

\* no text function applied yet
\* no node: the null that lastBlock starts as and that findStreamingLoadingCodeBlock
\* returns; a node is named by the path of container fields that leads to it
NoBlock == [path |-> <<>>, type |-> "none", loading |-> FALSE]

NoCalc ==
  [fn |-> "none", text |-> <<>>, pos |-> NoPos, to |-> NoPos, index |-> 0, back |-> NoPos,
   n |-> 0, stripped |-> <<>>, out |-> <<>>, removed |-> <<>>, again |-> <<>>,
   nodes |-> <<>>, found |-> NoBlock]

\* the patch holds the save-cursor sequence (ESC 7 ESC [ s) or the restore-cursor
\* sequence (ESC 8 ESC [ u) that begin() and origin() write in cursor mode
HasSave(patch) ==
  \E i \in 1..(Len(patch) - 1) : patch[i] = ESC /\ patch[i + 1] = "7"

HasRestore(patch) ==
  \E i \in 1..(Len(patch) - 1) : patch[i] = ESC /\ patch[i + 1] = "8"
\* no streamMarkdownToTerminal call has been made
NoSession ==
  [pc |-> "none", policy |-> [finalOnly |-> FALSE, isTTY |-> FALSE, startOnNewLine |-> FALSE],
   source |-> [kind |-> "string", chunks |-> <<>>, fails |-> 0], hook |-> 0, i |-> 0,
   outcome |-> "none", log |-> <<>>, written |-> <<>>, produced |-> <<>>]

NoEvent ==
  [op |-> "init", pushed |-> FALSE, saved |-> FALSE, threw |-> "none", sop |-> "none", patch |-> <<>>,
   queued |-> 0, seen |-> <<>>, newEntry |-> FALSE, returned |-> <<>>, heard |-> <<>>,
   flush |-> NoFlush, arg |-> <<>>, at |-> NoPos, to |-> NoPos,
   prevText |-> <<>>, prevAnchored |-> FALSE, prevWasLoading |-> FALSE,
   prevStartPos |-> NoPos, prevContent |-> <<>>, prevFull |-> <<>>,
   rendered |-> <<>>, closes |-> FALSE, task |-> NoTask]

findLineStart(s, index) ==
  LET nl == LastIndexOf(s, NL, Max(0, index - 1))
  IN IF nl = -1 THEN 0 ELSE nl + 1

\* -1 stands for null
findLastFenceLineStart(rendered) ==
  LET idx == LastIndexOf(rendered, FENCE, Len(rendered))
  IN IF idx = -1 THEN -1 ELSE findLineStart(rendered, idx)

tailLines(text, maxLines) ==
  IF maxLines <= 0 THEN <<>>
  ELSE LET rawLines == SplitLines(text)
           popped == IF rawLines[Len(rawLines)] = <<>>
                       THEN SubSeq(rawLines, 1, Len(rawLines) - 1) ELSE rawLines
           tail == SubSeq(popped, Max(0, Len(popped) - maxLines) + 1, Len(popped))
       IN JoinLines(tail) \o <<NL>>

CachedHighlight(cache) ==
  IF options.highlighter = "none" THEN [mode |-> "none", cache |-> {}]
  ELSE [mode |-> "cache", cache |-> cache]

\* renderAll that never consults the highlight cache
renderAllFullNoCache(nodes, cache) ==
  renderNodesToAnsi(nodes, TRUE, [mode |-> "none", cache |-> {}])

\* renderAll: <<full, view>>; full becomes lastFullRendered, view is returned
renderAllFull(nodes, cache) == renderNodesToAnsi(nodes, TRUE, CachedHighlight(cache))

renderAllView(full) ==
  IF options.viewport.set THEN tailLines(full, options.viewport.n) ELSE full

Task(kind, node, startPos, appended) ==
  [kind |-> kind,
   key |-> highlightKey(StripTrailingNewline(node.code), node.language),
   code |-> StripTrailingNewline(node.code),
   language |-> node.language,
   startPos |-> startPos,
   base |-> surface.text,
   baseAnchored |-> surface.anchored,
   fresh |-> ~CacheHas(highlightCache,
                       highlightKey(StripTrailingNewline(node.code), node.language)),
   appended |-> appended,
   stale |-> FALSE,
   awaited |-> FALSE,
   orphan |-> FALSE]

\* scheduleHighlights: the walk over the nodes; st is [cache, inflight, pending, threw],
\* threw set when the highlighter threw and ended the walk
RECURSIVE visit(_, _, _, _)
visit(nodes, i, skipKey, st) ==
  IF i > Len(nodes) THEN st
  ELSE LET node == nodes[i]
           isTrulyLoading == node.loading /\ findStreamingLoadingCodeBlock(nodes) = i
           code == StripTrailingNewline(node.code)
           key == highlightKey(code, node.language)
       IN IF node.type # "code_block" \/ isTrulyLoading
             \/ (Len(skipKey) > 0 /\ key = skipKey)
             \/ CacheHas(st.cache, key) \/ key \in st.inflight
            THEN visit(nodes, i + 1, skipKey, st)
          ELSE IF options.highlighter = "sync"
            THEN visit(nodes, i + 1, skipKey,
                       [st EXCEPT !.cache = CacheSet(st.cache, key, HighlightCode(code, node.language))])
          ELSE IF options.highlighter = "throws" THEN [st EXCEPT !.threw = TRUE]
          ELSE visit(nodes, i + 1, skipKey,
                     [st EXCEPT !.inflight = st.inflight \cup {key},
                                !.pending = Append(st.pending, Task("walk", node, NoPos, FALSE))])

scheduleHighlights(nodes, skipKey, st) ==
  IF options.highlighter = "none" THEN st ELSE visit(nodes, 1, skipKey, st)

(* ---------------------------------------------------------------------- *)
(* push: the decisions.  An outcome is [surface, patch, sop, threw, wl,    *)
(* sp]: the surface after the call, the patch returned, the surface        *)
(* operation used, the error raised ("none" when push returns) and the     *)
(* was-loading flag and start position left behind.                        *)
(* ---------------------------------------------------------------------- *)

Outcome(res, sop, wl, sp) ==
  [surface |-> [text |-> res.text, anchored |-> res.anchored], patch |-> res.patch,
   sop |-> sop, threw |-> "none", wl |-> wl, sp |-> sp]

Raise(sf, error, wl, sp) ==
  [surface |-> sf, patch |-> <<>>, sop |-> "none", threw |-> error, wl |-> wl, sp |-> sp]

fullRedraw(sf, nextRendered) ==
  Outcome(SurfaceSetText(options.anchor, sf, nextRendered), "setText", FALSE, NoPos)

\* the start position recorded under either strategy
LoadingStartPosAnyStrategy(rendered, prevCodeWasLoading) ==
  IF prevCodeWasLoading THEN codeStartPos
  ELSE LET startIndex == findLastFenceLineStart(rendered)
       IN IF startIndex = -1 THEN NoPos ELSE indexToPos(rendered, startIndex)

\* the start position taken on the later loading pushes instead of the first
LoadingStartPosOnLater(rendered, prevCodeWasLoading) ==
  IF ~prevCodeWasLoading THEN codeStartPos
  ELSE LET startIndex == findLastFenceLineStart(rendered)
       IN IF options.strategy = "redraw" \/ startIndex = -1 THEN NoPos
          ELSE indexToPos(rendered, startIndex)

\* the start position recorded when the tail code block is loading
LoadingStartPos(rendered, prevCodeWasLoading) ==
  IF prevCodeWasLoading THEN codeStartPos
  ELSE LET startIndex == findLastFenceLineStart(rendered)
       IN IF options.strategy = "redraw" \/ startIndex = -1 THEN NoPos
          ELSE indexToPos(rendered, startIndex)

\* the prefix check comparing nothing
PrefixChangedNever(rendered, prev, startPos) == FALSE

\* rendered.slice(0, k) !== prev.slice(0, k) with k = posToIndex(prev, startPos)
PrefixChanged(rendered, prev, startPos) ==
  LET startIndexPrev == posToIndex(prev, startPos)
  IN Slice(rendered, 0, startIndexPrev) # Slice(prev, 0, startIndexPrev)

\* the close rewrite that never raises: it redraws whatever the policy says
SyncCloseRewriteNeverRaises(sf, startPos, rendered) ==
  IF options.strategy = "redraw"
    THEN Outcome(SurfaceSetText(options.anchor, sf, rendered), "setText", FALSE, NoPos)
  ELSE IF startPos = NoPos THEN fullRedraw(sf, rendered)
  ELSE IF PrefixChanged(rendered, sf.text, startPos) THEN fullRedraw(sf, rendered)
  ELSE Outcome(SurfaceSetTextFrom(options.anchor, sf, rendered, startPos),
               "setTextFrom", FALSE, NoPos)

\* the tail code block just closed and its highlight is a string; sf is the surface
\* and startPos the recorded start position the push found
SyncCloseRewrite(sf, startPos, rendered) ==
  IF options.strategy = "redraw"
    THEN Outcome(SurfaceSetText(options.anchor, sf, rendered), "setText", FALSE, NoPos)
  ELSE IF startPos = NoPos
    THEN IF ~options.fullRedrawOnMismatch THEN Raise(sf, "rewrite", FALSE, startPos)
         ELSE fullRedraw(sf, rendered)
  ELSE IF PrefixChanged(rendered, sf.text, startPos)
    THEN IF ~options.fullRedrawOnMismatch THEN Raise(sf, "rewrite", FALSE, startPos)
         ELSE fullRedraw(sf, rendered)
  ELSE Outcome(SurfaceSetTextFrom(options.anchor, sf, rendered, startPos),
               "setTextFrom", FALSE, NoPos)

\* the end of push falling back to a full redraw whatever the policy says
AppendOrRewriteAlways(rendered, prevRendered, wl, sp) ==
  IF options.strategy = "redraw"
    THEN Outcome(SurfaceSetText(options.anchor, surface, rendered), "setText", wl, sp)
  ELSE IF StartsWith(rendered, prevRendered)
    THEN Outcome(SurfaceAppend(options.anchor, surface, SliceFrom(rendered, Len(prevRendered))),
                 "append", wl, sp)
  ELSE fullRedraw(surface, rendered)

\* the end of push: redraw, append, or the redraw fallback
AppendOrRewrite(rendered, prevRendered, wl, sp) ==
  IF options.strategy = "redraw"
    THEN Outcome(SurfaceSetText(options.anchor, surface, rendered), "setText", wl, sp)
  ELSE IF StartsWith(rendered, prevRendered)
    THEN Outcome(SurfaceAppend(options.anchor, surface, SliceFrom(rendered, Len(prevRendered))),
                 "append", wl, sp)
  ELSE IF ~options.fullRedrawOnMismatch THEN Raise(surface, "nonappend", wl, sp)
  ELSE fullRedraw(surface, rendered)

MarkStale(tasks) == [i \in 1..Len(tasks) |-> [tasks[i] EXCEPT !.stale = TRUE]]

\* push after rendering: the patch decision and the task of an asynchronous close
PushDecide(content1, lastNode, isLoading, closes, st1, cache2, full, rendered) ==
  LET out == IF isLoading
               THEN AppendOrRewrite(rendered, surface.text, TRUE,
                                    LoadingStartPos(rendered, lastCodeWasLoading))
             ELSE IF closes /\ options.highlighter = "sync"
               THEN SyncCloseRewrite(surface, codeStartPos, rendered)
             ELSE AppendOrRewrite(rendered, surface.text, FALSE, NoPos)
      pending2 == IF closes /\ options.highlighter = "async"
                    THEN Append(st1.pending,
                                Task("tail", lastNode, codeStartPos, out.sop = "append"))
                    ELSE st1.pending
  IN [content |-> content1, full |-> full, rendered |-> rendered, closes |-> closes,
      cache |-> cache2, inflight |-> st1.inflight, pending |-> pending2, out |-> out]

\* push after highlighting: renderAll
PushRender(content1, nodes, lastNode, isLoading, closes, st1, cache2) ==
  PushDecide(content1, lastNode, isLoading, closes, st1, cache2,
             renderAllFull(nodes, cache2), renderAllView(renderAllFull(nodes, cache2)))

\* push left by an error the highlighter threw: the content has grown, nothing is
\* rendered
PushThrown(content1, closes, st1) ==
  [content |-> content1, full |-> lastFullRendered, rendered |-> ev.rendered,
   closes |-> closes, cache |-> st1.cache, inflight |-> st1.inflight,
   pending |-> st1.pending,
   out |-> Raise(surface, "highlight", lastCodeWasLoading, codeStartPos)]

\* push after scheduling: the synchronous highlight of a closing tail
PushSchedule(content1, nodes, lastNode, isLoading, closes, skipHighlightKey, st1) ==
  IF st1.threw \/ (closes /\ options.highlighter = "throws")
    THEN PushThrown(content1, closes, st1)
  ELSE PushRender(content1, nodes, lastNode, isLoading, closes, st1,
                  IF closes /\ options.highlighter = "sync"
                    THEN CacheSet(st1.cache, skipHighlightKey,
                                  HighlightCode(StripTrailingNewline(lastNode.code),
                                                lastNode.language))
                    ELSE st1.cache)

\* push after parsing: the key of a closing tail, then scheduleHighlights
PushTail(content1, nodes, lastNode, isLoading, closes) ==
  LET skipHighlightKey == IF closes
                            THEN highlightKey(StripTrailingNewline(lastNode.code),
                                              lastNode.language)
                            ELSE <<>>
  IN PushSchedule(content1, nodes, lastNode, isLoading, closes, skipHighlightKey,
                  scheduleHighlights(nodes, skipHighlightKey,
                                     [cache |-> highlightCache,
                                      inflight |-> inflightHighlights,
                                      pending |-> MarkStale(pending),
                                      threw |-> FALSE]))

\* push after parsing: what the tail node is
PushNodes(content1, nodes) ==
  LET hasLast == Len(nodes) > 0
      lastNode == nodes[Len(nodes)]
      isCode == hasLast /\ lastNode.type = "code_block"
      isLoading == isCode /\ lastNode.loading
      closes == options.highlighter # "none" /\ isCode /\ ~isLoading /\ lastCodeWasLoading
  IN PushTail(content1, nodes, lastNode, isLoading, closes)

\* everything push(chunk) computes
PushResult(chunk) ==
  PushNodes(content \o chunk, parseMarkdownToStructure(normalizeMarkdownInput(content \o chunk)))

\* push(chunk) leaving r behind
PushApply(r) ==
  /\ content' = r.content
  /\ lastFullRendered' = r.full
  /\ highlightCache' = r.cache
  /\ inflightHighlights' = r.inflight
  /\ pending' = r.pending
  /\ lastCodeWasLoading' = r.out.wl
  /\ codeStartPos' = r.out.sp
  /\ surface' = r.out.surface
  /\ term' = TermWrite(term, r.out.patch)
  /\ ev' = [op |-> "push", pushed |-> TRUE, saved |-> ev.saved \/ HasSave(r.out.patch),
            threw |-> r.out.threw, sop |-> r.out.sop,
            patch |-> r.out.patch, queued |-> 0, seen |-> <<>>, newEntry |-> FALSE,
            returned |-> <<>>, heard |-> <<>>, flush |-> NoFlush,
            arg |-> <<>>, at |-> NoPos, to |-> NoPos,
            prevText |-> surface.text,
            prevAnchored |-> surface.anchored, prevWasLoading |-> lastCodeWasLoading,
            prevStartPos |-> codeStartPos, prevContent |-> content,
            prevFull |-> lastFullRendered, rendered |-> r.rendered, closes |-> r.closes,
            task |-> NoTask]
  /\ UNCHANGED <<options, patchQueue, delivered, flushing, unhandled, resets, calls, calc>>

Push(chunk) == PushApply(PushResult(chunk)) /\ UNCHANGED session

\* the chunks a push may carry: the next 1..MaxChunk characters of a document, or the
\* empty chunk as the first push
Chunks ==
  {Slice(d, Len(content), Len(content) + k) :
     d \in {dd \in Docs : StartsWith(dd, content)},
     k \in (IF ev.pushed THEN 1 ELSE 0)..MaxChunk}

PushChunk == \E chunk \in Chunks : Push(chunk)

(* ---------------------------------------------------------------------- *)
(* Highlight completions, flush                                            *)
(* ---------------------------------------------------------------------- *)

RemoveAt(seq, i) == SubSeq(seq, 1, i - 1) \o SubSeq(seq, i + 1, Len(seq))

\* a resolved tail task that always rewrites everything
TailCompletionAlwaysFull(nextRendered, startPos) ==
  [res |-> SurfaceSetText(options.anchor, surface, nextRendered), sop |-> "setText"]

\* the patch a resolved tail task emits: [text, anchored, patch] and the operation used
TailCompletion(nextRendered, startPos) ==
  IF options.strategy = "redraw" \/ startPos = NoPos
       \/ PrefixChanged(nextRendered, surface.text, startPos)
    THEN [res |-> SurfaceSetText(options.anchor, surface, nextRendered), sop |-> "setText"]
    ELSE [res |-> SurfaceSetTextFrom(options.anchor, surface, nextRendered, startPos),
          sop |-> "setTextFrom"]

\* the patch a resolved walk task emits
WalkCompletion(nextRendered) ==
  [res |-> SurfaceSetText(options.anchor, surface, nextRendered), sop |-> "setText"]

\* emitPatch handing the patch to onPatch before the surface took the new text
OnPatchSeesBefore(before, after) == before.text

\* what getRenderedText() returns inside onPatch: before is the surface the
\* continuation found, after the surface its operation left
OnPatchSees(before, after) == after.text

\* emitPatch that calls onPatch and queues nothing
emitPatchUnqueued(queue, patch) == queue

\* emitPatch on patchQueue
emitPatch(queue, patch) == IF Len(patch) > 0 THEN Append(queue, patch) ELSE queue

\* emitPatch on the patches onPatch has received
onPatch(log, patch) == IF Len(patch) > 0 THEN Append(log, patch) ELSE log

\* the continuation of a resolved task after its patch is made
CompleteApply(task, cache1, full, nextRendered, done) ==
  /\ highlightCache' = cache1
  /\ lastFullRendered' = full
  /\ surface' = [text |-> done.res.text, anchored |-> done.res.anchored]
  /\ patchQueue' = emitPatch(patchQueue, done.res.patch)
  /\ delivered' = onPatch(delivered, done.res.patch)
  /\ term' = TermWrite(term, done.res.patch)
  /\ inflightHighlights' = IF task.kind = "walk" THEN inflightHighlights \ {task.key}
                           ELSE inflightHighlights
  /\ ev' = [op |-> "complete", pushed |-> TRUE, saved |-> ev.saved \/ HasSave(done.res.patch),
            threw |-> "none", sop |-> done.sop,
            patch |-> done.res.patch, queued |-> IF Len(done.res.patch) > 0 THEN 1 ELSE 0,
            seen |-> IF Len(done.res.patch) > 0 THEN OnPatchSees(surface, done.res)
                     ELSE <<>>,
            newEntry |-> ~CacheHas(highlightCache, task.key),
            returned |-> <<>>, heard |-> <<>>, flush |-> NoFlush,
            arg |-> <<>>, at |-> NoPos, to |-> NoPos,
            prevText |-> surface.text, prevAnchored |-> surface.anchored,
            prevWasLoading |-> lastCodeWasLoading, prevStartPos |-> task.startPos,
            prevContent |-> content, prevFull |-> lastFullRendered,
            rendered |-> nextRendered, closes |-> FALSE, task |-> task]
  /\ UNCHANGED <<options, content, lastCodeWasLoading, codeStartPos, flushing, unhandled,
                 resets, calls, calc>>

\* the continuation of a resolved task after renderAll
CompleteRendered(task, cache1, full, nextRendered) ==
  CompleteApply(task, cache1, full, nextRendered,
                IF task.kind = "tail" THEN TailCompletion(nextRendered, task.startPos)
                ELSE WalkCompletion(nextRendered))

\* the continuation of a resolved task: the cache entry, then renderAll
CompleteCached(task, cache1) ==
  CompleteRendered(task, cache1,
                   renderAllFull(parseMarkdownToStructure(normalizeMarkdownInput(content)),
                                 cache1),
                   renderAllView(renderAllFull(
                     parseMarkdownToStructure(normalizeMarkdownInput(content)), cache1)))

\* the future of pending[i] resolves: its continuation runs to the end
CompleteTask(i) ==
  /\ pending' = MarkStale(RemoveAt(pending, i))
  /\ CompleteCached(pending[i],
                    CacheSet(highlightCache, pending[i].key,
                             HighlightCode(pending[i].code, pending[i].language)))

Complete(i) == CompleteTask(i) /\ UNCHANGED session

CompleteHighlight == \E i \in 1..Len(pending) : Complete(i)

\* flush() returns: every pending task has settled; the queue is handed over and emptied
Flush ==
  /\ pending = <<>>
  /\ patchQueue' = <<>>
  /\ delivered' = <<>>
  /\ ev' = [NoEvent EXCEPT !.op = "flush", !.pushed = ev.pushed, !.saved = ev.saved, !.rendered = ev.rendered,
                            !.threw = ev.threw, !.returned = patchQueue,
                            !.heard = delivered]
  /\ UNCHANGED <<options, content, lastCodeWasLoading, codeStartPos, surface,
                 lastFullRendered, highlightCache, inflightHighlights, pending, term,
                 flushing, unhandled, resets, calls, calc, session>>

Init ==
  /\ options \in Options
  /\ content = <<>>
  /\ lastCodeWasLoading = FALSE
  /\ codeStartPos = NoPos
  /\ surface = SurfaceInit
  /\ lastFullRendered = <<>>
  /\ highlightCache = {}
  /\ inflightHighlights = {}
  /\ pending = <<>>
  /\ patchQueue = <<>>
  /\ term = TermInit
  /\ delivered = <<>>
  /\ flushing = NoFlush
  /\ unhandled = 0
  /\ resets = 0
  /\ calls = 0
  /\ calc = NoCalc
  /\ session = NoSession
  /\ ev = NoEvent

Next == PushChunk \/ CompleteHighlight \/ Flush

Spec == Init /\ [][Next]_vars

(* ---------------------------------------------------------------------- *)
(* The renderer over its whole life: highlight failures, flush as a call   *)
(* and a return, reset                                                     *)
(* ---------------------------------------------------------------------- *)

MaxResets == 1

\* the renderers taken through their whole life: the default anchor, no viewport
\* height, the redraw fallback of the default; "throws" is a synchronous highlighter
\* that throws on every call
LifeOptions ==
  {[strategy |-> st, anchor |-> "cursor", viewport |-> [set |-> FALSE, n |-> 0],
    fullRedrawOnMismatch |-> st = "smart", highlighter |-> h] :
     st \in {"smart", "redraw"}, h \in {"async", "throws"}}

\* the documents streamed to them
LifeDoc1 == <<FENCE, NL, "x", NL, FENCE, NL>>
LifeDoc2 == <<"a", NL, FENCE, NL, FENCE>>
LifeDocs == {LifeDoc1, LifeDoc2}

LifeChunks ==
  {Slice(d, Len(content), Len(content) + k) :
     d \in {dd \in LifeDocs : StartsWith(dd, content)}, k \in 1..MaxChunk}

PushLifeChunk == \E chunk \in LifeChunks : Push(chunk)

\* the future of pending[i] rejects: a walk task catches the rejection and leaves the
\* in-flight map; a tail task has no catch, so the promise of its finally rejects with
\* no handler
RejectTask(i) ==
  /\ options.highlighter = "async"
  /\ pending' = RemoveAt(pending, i)
  /\ inflightHighlights' = IF pending[i].kind = "walk"
                             THEN inflightHighlights \ {pending[i].key}
                             ELSE inflightHighlights
  /\ unhandled' = IF pending[i].kind = "tail" THEN unhandled + 1 ELSE unhandled
  /\ ev' = [NoEvent EXCEPT !.op = "reject", !.pushed = ev.pushed, !.saved = ev.saved, !.rendered = ev.rendered,
                            !.prevText = surface.text, !.prevAnchored = surface.anchored,
                            !.task = pending[i]]
  /\ UNCHANGED <<options, content, lastCodeWasLoading, codeStartPos, surface,
                 lastFullRendered, highlightCache, patchQueue, term, delivered, flushing,
                 resets, calls, calc>>

Reject(i) == RejectTask(i) /\ UNCHANGED session

RejectHighlight == \E i \in 1..Len(pending) : Reject(i)

\* the tasks a flush() call finds pending: it awaits these and no later ones
MarkAwaited(tasks) == [i \in 1..Len(tasks) |-> [tasks[i] EXCEPT !.awaited = TRUE]]

\* flush() is called: Promise.allSettled over a copy of the pending set
FlushCallRenderer ==
  /\ ~flushing.on
  /\ flushing' = [on |-> TRUE, found |-> Len(pending) > 0, again |-> ev.op = "flush"]
  /\ pending' = MarkAwaited(pending)
  /\ ev' = [NoEvent EXCEPT !.op = "flushCall", !.pushed = ev.pushed, !.saved = ev.saved,
                            !.rendered = ev.rendered]
  /\ UNCHANGED <<options, content, lastCodeWasLoading, codeStartPos, surface,
                 lastFullRendered, highlightCache, inflightHighlights, patchQueue, term,
                 delivered, unhandled, resets, calls, calc>>

\* a flush that does not wait
FlushSettledAlways(tasks) == TRUE

\* Promise.allSettled has resolved: every awaited task has left the pending set
FlushSettled(tasks) == \A i \in 1..Len(tasks) : ~tasks[i].awaited

\* flush() returns the queue and leaves a new empty one
FlushReturnRenderer ==
  /\ flushing.on
  /\ FlushSettled(pending)
  /\ flushing' = NoFlush
  /\ patchQueue' = <<>>
  /\ delivered' = <<>>
  /\ ev' = [NoEvent EXCEPT !.op = "flush", !.pushed = ev.pushed, !.saved = ev.saved, !.rendered = ev.rendered,
                            !.returned = patchQueue, !.heard = delivered,
                            !.flush = flushing]
  /\ UNCHANGED <<options, content, lastCodeWasLoading, codeStartPos, surface,
                 lastFullRendered, highlightCache, inflightHighlights, pending, term,
                 unhandled, resets, calls, calc>>

FlushCall == FlushCallRenderer /\ UNCHANGED session

FlushReturn == FlushReturnRenderer /\ UNCHANGED session

\* the tasks in flight when reset() is called
MarkOrphan(tasks) == [i \in 1..Len(tasks) |-> [tasks[i] EXCEPT !.orphan = TRUE]]

\* a reset that leaves the queue alone
ResetQueueKeeps(queue) == queue

\* patchQueue = []
ResetQueue(queue) == <<>>

\* reset(): the patch of surface.setText('') is dropped, neither returned nor emitted
Reset ==
  /\ resets < MaxResets
  /\ resets' = resets + 1
  /\ UNCHANGED <<calls, calc, session>>
  /\ content' = <<>>
  /\ lastCodeWasLoading' = FALSE
  /\ codeStartPos' = NoPos
  /\ highlightCache' = {}
  /\ patchQueue' = ResetQueue(patchQueue)
  /\ delivered' = <<>>
  /\ surface' = [text |-> SurfaceSetText(options.anchor, surface, <<>>).text,
                 anchored |-> SurfaceSetText(options.anchor, surface, <<>>).anchored]
  /\ pending' = MarkOrphan(pending)
  /\ ev' = [NoEvent EXCEPT !.op = "reset", !.pushed = TRUE, !.saved = ev.saved, !.sop = "setText",
                            !.heard = delivered,
                            !.prevText = surface.text, !.prevAnchored = surface.anchored,
                            !.prevWasLoading = lastCodeWasLoading,
                            !.prevStartPos = codeStartPos]
  /\ UNCHANGED <<options, lastFullRendered, inflightHighlights, term, flushing, unhandled>>

InitLife ==
  /\ options \in LifeOptions
  /\ content = <<>>
  /\ lastCodeWasLoading = FALSE
  /\ codeStartPos = NoPos
  /\ surface = SurfaceInit
  /\ lastFullRendered = <<>>
  /\ highlightCache = {}
  /\ inflightHighlights = {}
  /\ pending = <<>>
  /\ patchQueue = <<>>
  /\ term = TermInit
  /\ delivered = <<>>
  /\ flushing = NoFlush
  /\ unhandled = 0
  /\ resets = 0
  /\ calls = 0
  /\ calc = NoCalc
  /\ session = NoSession
  /\ ev = NoEvent

NextLife ==
  PushLifeChunk \/ CompleteHighlight \/ RejectHighlight \/ FlushCall \/ FlushReturn \/ Reset

SpecLife == InitLife /\ [][NextLife]_vars

(* ---------------------------------------------------------------------- *)
(* The anchored text surface on its own: any operation at any position,    *)
(* every patch written to the terminal                                     *)
(* ---------------------------------------------------------------------- *)

MaxText == 3
MaxArg == 2
MaxLine == 2
MaxColumn == 3
MaxRow == 3
MaxCalls == 3

\* the texts of at most n characters over a letter and the newline
TextsUpTo(n) == UNION {[1..k -> {"a", NL}] : k \in 0..n}

\* positions are 1-based; a column past the end of its line is among them
Positions == [line : 1..MaxLine, column : 1..MaxColumn]

\* the surfaces taken on their own: one per anchor mode
SurfaceOptions ==
  {[strategy |-> "smart", anchor |-> a, viewport |-> [set |-> FALSE, n |-> 0],
    fullRedrawOnMismatch |-> TRUE, highlighter |-> "none"] : a \in {"cursor", "home"}}

\* the caller writes the patch of an operation to the terminal; res is what the
\* operation returned, arg, at and to the text and the positions it was called with
SurfaceStep(sop, res, arg, at, to) ==
  /\ calls < MaxCalls
  /\ Len(res.text) <= MaxText
  /\ calls' = calls + 1
  /\ surface' = [text |-> res.text, anchored |-> res.anchored]
  /\ term' = TermWrite(term, res.patch)
  /\ ev' = [NoEvent EXCEPT !.op = "surface", !.sop = sop, !.patch = res.patch,
                            !.saved = ev.saved \/ HasSave(res.patch),
                            !.arg = arg, !.at = at, !.to = to,
                            !.prevText = surface.text, !.prevAnchored = surface.anchored]
  /\ UNCHANGED <<options, content, lastCodeWasLoading, codeStartPos, lastFullRendered,
                 highlightCache, inflightHighlights, pending, patchQueue, delivered,
                 flushing, unhandled, resets, calc, session>>

DoBegin ==
  /\ term.r <= MaxRow
  /\ SurfaceStep("begin", SurfaceBegin(options.anchor, surface), <<>>, NoPos, NoPos)

DoSetText ==
  \E next \in TextsUpTo(MaxArg) :
    SurfaceStep("setText", SurfaceSetText(options.anchor, surface, next), next, NoPos, NoPos)

DoAppend ==
  \E delta \in TextsUpTo(MaxArg) :
    SurfaceStep("append", SurfaceAppend(options.anchor, surface, delta), delta, NoPos, NoPos)

\* setTextFrom is called with a text that agrees with the current one before from
DoSetTextFrom ==
  \E next \in TextsUpTo(MaxArg), from \in Positions :
    /\ ~PrefixChanged(next, surface.text, from)
    /\ SurfaceStep("setTextFrom", SurfaceSetTextFrom(options.anchor, surface, next, from),
                   next, from, NoPos)

DoInsert ==
  \E insertion \in TextsUpTo(MaxArg), at \in Positions :
    SurfaceStep("insert", SurfaceInsert(options.anchor, surface, at, insertion),
                insertion, at, NoPos)

DoReplace ==
  \E replacement \in TextsUpTo(1), from \in Positions, to \in Positions :
    SurfaceStep("replace",
                SurfaceReplace(options.anchor, surface, [start |-> from, end |-> to],
                               replacement),
                replacement, from, to)

DoDelete ==
  \E from \in Positions, to \in Positions :
    SurfaceStep("delete",
                SurfaceDelete(options.anchor, surface, [start |-> from, end |-> to]),
                <<>>, from, to)

InitSurface ==
  /\ options \in SurfaceOptions
  /\ content = <<>>
  /\ lastCodeWasLoading = FALSE
  /\ codeStartPos = NoPos
  /\ surface = SurfaceInit
  /\ lastFullRendered = <<>>
  /\ highlightCache = {}
  /\ inflightHighlights = {}
  /\ pending = <<>>
  /\ patchQueue = <<>>
  /\ term = TermInit
  /\ delivered = <<>>
  /\ flushing = NoFlush
  /\ unhandled = 0
  /\ resets = 0
  /\ calls = 0
  /\ calc = NoCalc
  /\ session = NoSession
  /\ ev = NoEvent

NextSurface ==
  DoBegin \/ DoSetText \/ DoAppend \/ DoSetTextFrom \/ DoInsert \/ DoReplace \/ DoDelete

SpecSurface == InitSurface /\ [][NextSurface]_vars

(* ---------------------------------------------------------------------- *)
(* The text functions of the terminal package on their own: a text with    *)
(* escapes, newlines and carriage returns, a position, and the functions   *)
(* applied to them                                                         *)
(* ---------------------------------------------------------------------- *)

MaxAnsiLen == 4

\* the texts of at most MaxAnsiLen characters over a letter, the newline, the
\* carriage return, ESC and the bracket that opens (and can end) a CSI sequence
AnsiTexts == UNION {[1..k -> {"a", NL, CR, ESC, "["}] : k \in 0..MaxAnsiLen}

\* the arguments of the functions, with no result yet
CalcInputs == [NoCalc EXCEPT !.text = calc.text, !.pos = calc.pos]

CalcStep(next) ==
  /\ calc' = next
  /\ UNCHANGED <<options, content, lastCodeWasLoading, codeStartPos, surface,
                 lastFullRendered, highlightCache, inflightHighlights, pending, patchQueue,
                 term, delivered, flushing, unhandled, resets, calls, session,
                 ev>>

\* posToIndex(text, pos), and indexToPos of the index it returned
ApplyPosToIndex ==
  CalcStep([CalcInputs EXCEPT !.fn = "posToIndex",
                              !.index = posToIndex(calc.text, calc.pos),
                              !.back = indexToPos(calc.text, posToIndex(calc.text, calc.pos))])

\* indexToPos(text, i), and posToIndex of the position it returned
ApplyIndexToPos ==
  \E i \in 0..Len(calc.text) :
    CalcStep([CalcInputs EXCEPT !.fn = "indexToPos",
                                !.index = i,
                                !.back = indexToPos(calc.text, i),
                                !.n = posToIndex(calc.text, indexToPos(calc.text, i))])

\* visibleLength(text) and stripAnsi(text)
ApplyVisibleLength ==
  CalcStep([CalcInputs EXCEPT !.fn = "visibleLength",
                              !.n = visibleLength(calc.text),
                              !.stripped = stripAnsi(calc.text)])

\* applyReplace(text, range, ''), then applyInsert of the removed characters at the
\* position of the start of the range: at is that position in the shortened text
DeleteThenInsertAt(range, start, removed, out, at) ==
  CalcStep([CalcInputs EXCEPT !.fn = "applyReplace",
                              !.to = range.end,
                              !.index = start,
                              !.out = out,
                              !.removed = removed,
                              !.back = at,
                              !.again = applyInsert(out, at, removed)])

DeleteThenInsertOut(range, start, removed, out) ==
  DeleteThenInsertAt(range, start, removed, out, indexToPos(out, start))

DeleteThenInsert(text, range, normal) ==
  DeleteThenInsertOut(range, normal.start, Slice(text, normal.start, normal.endExclusive),
                      applyReplace(text, range, <<>>))

ApplyDeleteThenInsert ==
  \E to \in Positions :
    DeleteThenInsert(calc.text, [start |-> calc.pos, end |-> to],
                     normalizeRange(calc.text, [start |-> calc.pos, end |-> to]))

InitText ==
  /\ options = [strategy |-> "smart", anchor |-> "cursor", viewport |-> [set |-> FALSE, n |-> 0],
                fullRedrawOnMismatch |-> TRUE, highlighter |-> "none"]
  /\ content = <<>>
  /\ lastCodeWasLoading = FALSE
  /\ codeStartPos = NoPos
  /\ surface = SurfaceInit
  /\ lastFullRendered = <<>>
  /\ highlightCache = {}
  /\ inflightHighlights = {}
  /\ pending = <<>>
  /\ patchQueue = <<>>
  /\ term = TermInit
  /\ delivered = <<>>
  /\ flushing = NoFlush
  /\ unhandled = 0
  /\ resets = 0
  /\ calls = 0
  /\ session = NoSession
  /\ ev = NoEvent
  /\ calc \in {[NoCalc EXCEPT !.text = t, !.pos = p] : t \in AnsiTexts, p \in Positions}

NextText == ApplyPosToIndex \/ ApplyIndexToPos \/ ApplyVisibleLength \/ ApplyDeleteThenInsert

SpecText == InitText /\ [][NextText]_vars

(* ---------------------------------------------------------------------- *)
(* Properties                                                              *)
(* ---------------------------------------------------------------------- *)

\* C1: writing every emitted patch, in emission order, to a VT100-like terminal whose
\* cursor starts at the anchor leaves a screen whose lines are stripAnsi of the surface
\* text, trailing empty lines aside
C1_ScreenShowsText == ScreenLines(term) = TextLines(surface.text)

\* a resolved highlight has rewritten the tail of a screen of several lines in place
C1_Witness ==
  /\ ev.op = "complete"
  /\ ev.sop = "setTextFrom"
  /\ Len(ScreenLines(term)) > 2
  /\ ScreenLines(term) = TextLines(surface.text)

\* the highlighter as a one-shot render uses it: called directly, its result a string
OneShotHighlight ==
  IF options.highlighter = "none" THEN [mode |-> "none", cache |-> {}]
  ELSE [mode |-> "direct", cache |-> {}]

\* the parse of the accumulated content
NodesNow == parseMarkdownToStructure(normalizeMarkdownInput(content))

PendingKeys == {pending[i].key : i \in 1..Len(pending)}

\* C4: at every moment at most one highlight task is in flight per cache key
C4_OneTaskPerKey ==
  \A k \in PendingKeys : Cardinality({i \in 1..Len(pending) : pending[i].key = k}) <= 1

\* C5 as stated: under smart, a true was-loading flag comes with a recorded start
\* position, also when a viewport height clips the view (taken here for the positive
\* viewport heights, which clip to that many lines)
C5_LoadingHasStartPos ==
  (/\ options.strategy = "smart"
   /\ options.viewport.set => options.viewport.n > 0
   /\ lastCodeWasLoading) => codeStartPos # NoPos

\* C5 amended: under smart and without a viewport height, a true was-loading flag comes
\* with a recorded start position
C5_LoadingHasStartPosUnclipped ==
  (options.strategy = "smart" /\ ~options.viewport.set /\ lastCodeWasLoading) =>
    codeStartPos # NoPos

\* a second loading push of an unclipped smart renderer, the start position kept
C5_Witness ==
  /\ options.strategy = "smart"
  /\ ~options.viewport.set
  /\ ev.op = "push"
  /\ ev.prevWasLoading
  /\ lastCodeWasLoading
  /\ codeStartPos # NoPos
  /\ codeStartPos.line > 1

\* the surface as the last operation found it
PrevSurface == [text |-> ev.prevText, anchored |-> ev.prevAnchored]

\* the tail node of the accumulated content is a closed code block
TailClosed ==
  /\ Len(NodesNow) > 0
  /\ NodesNow[Len(NodesNow)].type = "code_block"
  /\ ~NodesNow[Len(NodesNow)].loading

\* the last push found the tail code block loading and left it closed
TailJustClosed == ev.op = "push" /\ ev.prevWasLoading /\ TailClosed

\* a and b agree on each of their first k characters
AgreeBefore(a, b, k) ==
  /\ Len(a) >= k
  /\ Len(b) >= k
  /\ \A i \in 1..k : a[i] = b[i]

\* C6: under smart with a synchronous highlighter, when the tail code block closes and
\* a start position is recorded, push emits setTextFrom(rendered, startPos) exactly when
\* rendered and the displayed text agree before posToIndex(displayed, startPos); when
\* they disagree it emits setText(rendered) under fullRedrawOnMismatch and raises
\* without it; a push that returns leaves the flag and the start position cleared
C6_SyncCloseNarrowIffPrefix ==
  (/\ options.strategy = "smart"
   /\ options.highlighter = "sync"
   /\ TailJustClosed
   /\ ev.prevStartPos # NoPos) =>
    LET agree == AgreeBefore(ev.rendered, ev.prevText,
                             posToIndex(ev.prevText, ev.prevStartPos))
    IN /\ agree =>
            /\ ev.sop = "setTextFrom"
            /\ ev.patch = SurfaceSetTextFrom(options.anchor, PrevSurface, ev.rendered,
                                             ev.prevStartPos).patch
       /\ (~agree /\ options.fullRedrawOnMismatch) =>
            /\ ev.sop = "setText"
            /\ ev.patch = SurfaceSetText(options.anchor, PrevSurface, ev.rendered).patch
       /\ (~agree /\ ~options.fullRedrawOnMismatch) => ev.threw = "rewrite"
       /\ ev.threw = "none" =>
            /\ surface.text = ev.rendered
            /\ ~lastCodeWasLoading
            /\ codeStartPos = NoPos

\* a closing push that rewrote the block in place below an untouched first line
C6_Witness ==
  /\ options.strategy = "smart"
  /\ options.highlighter = "sync"
  /\ TailJustClosed
  /\ ev.sop = "setTextFrom"
  /\ posToIndex(ev.prevText, ev.prevStartPos) > 0
  /\ ~lastCodeWasLoading

\* a closing push that found the prefix changed and redrew everything
C6_FallbackReached ==
  /\ options.strategy = "smart"
  /\ options.highlighter = "sync"
  /\ TailJustClosed
  /\ ev.prevStartPos # NoPos
  /\ ev.sop = "setText"

\* a closing push under smart with a highlighter that returns a future
AsyncClose ==
  options.strategy = "smart" /\ options.highlighter = "async" /\ TailJustClosed

\* a tail task has resolved under smart
TailResolved ==
  options.strategy = "smart" /\ ev.op = "complete" /\ ev.task.kind = "tail"

\* the task the closing push has just created
NewTask == pending[Len(pending)]

\* the closing push neither waits nor rewrites: it takes the append rule, and its task,
\* holding the start position the push found, is left pending
C7_ClosingPushDoesNotWait ==
  AsyncClose =>
    LET extends == AgreeBefore(ev.rendered, ev.prevText, Len(ev.prevText))
    IN /\ Len(pending) > 0
       /\ NewTask.kind = "tail"
       /\ NewTask.startPos = ev.prevStartPos
       /\ codeStartPos = NoPos
       /\ ~lastCodeWasLoading
       /\ ev.rendered = renderAllView(renderAllFull(NodesNow, highlightCache))
       /\ extends => ev.sop = "append"
       /\ (~extends /\ options.fullRedrawOnMismatch) => ev.sop = "setText"
       /\ (~extends /\ ~options.fullRedrawOnMismatch) => ev.threw = "nonappend"

\* the resolved task updates the cache, re-renders the content and emits one patch:
\* setTextFrom when a start position was recorded and the new render agrees with the
\* current text before it, setText otherwise
C7_ResolveEmitsOnePatch ==
  TailResolved =>
    LET sp == ev.task.startPos
        agree == sp # NoPos
                 /\ AgreeBefore(ev.rendered, ev.prevText, posToIndex(ev.prevText, sp))
    IN /\ CacheHas(highlightCache, ev.task.key)
       /\ CacheGet(highlightCache, ev.task.key)
            = HighlightCode(ev.task.code, ev.task.language)
       /\ ev.rendered = renderAllView(renderAllFull(NodesNow, highlightCache))
       /\ surface.text = ev.rendered
       /\ ev.queued = 1
       /\ patchQueue[Len(patchQueue)] = ev.patch
       /\ agree =>
            /\ ev.sop = "setTextFrom"
            /\ ev.patch = SurfaceSetTextFrom(options.anchor, PrevSurface, ev.rendered, sp).patch
       /\ ~agree =>
            /\ ev.sop = "setText"
            /\ ev.patch = SurfaceSetText(options.anchor, PrevSurface, ev.rendered).patch

\* what the closing push would have done had the highlight been a string: the close
\* rewrite applied to the surface and start position that push found
SyncWould ==
  SyncCloseRewrite([text |-> ev.task.base, anchored |-> ev.task.baseAnchored],
                   ev.task.startPos, ev.rendered)

\* C7 as stated: under smart with a highlighter that returns a future, the closing push
\* returns the plain update of the append rule without waiting; the resolved future
\* updates the cache, re-renders and emits exactly one patch, setTextFrom when the new
\* render agrees with the current text before the start position and setText otherwise;
\* with nothing run in between, that patch is the patch the synchronous highlighter would
\* have produced in the closing push (taken here for the positive viewport heights and
\* for no viewport height)
C7_AsyncPatchEqualsSync ==
  (options.viewport.set => options.viewport.n > 0) =>
    /\ C7_ClosingPushDoesNotWait
    /\ (AsyncClose /\ ev.threw = "none") => ~CacheHas(highlightCache, NewTask.key)
    /\ C7_ResolveEmitsOnePatch
    /\ (TailResolved /\ ~ev.task.stale) =>
         (SyncWould.threw = "none" /\ ev.patch = SyncWould.patch)

\* C7 amended: the closing push renders the closed block plain unless its key is already
\* cached, and the patch of the resolved future is the synchronous patch when nothing
\* ran in between, the closing push appended, and the synchronous path would not raise
C7_AsyncPatchEqualsSyncAfterAppend ==
  /\ C7_ClosingPushDoesNotWait
  /\ (AsyncClose /\ ev.threw = "none" /\ NewTask.fresh) =>
       ~CacheHas(highlightCache, NewTask.key)
  /\ C7_ResolveEmitsOnePatch
  /\ (TailResolved /\ ~ev.task.stale /\ ev.task.appended /\ SyncWould.threw = "none") =>
       ev.patch = SyncWould.patch

\* a future resolved right after a closing push that appended, rewriting the block in
\* place below an untouched first line
C7_Witness ==
  /\ TailResolved
  /\ ~ev.task.stale
  /\ ev.task.appended
  /\ SyncWould.threw = "none"
  /\ ev.sop = "setTextFrom"
  /\ ev.task.startPos.line > 1
  /\ ev.patch = SyncWould.patch

\* C8: under smart, a push that the close rewrite does not handle appends the suffix of
\* the new render beyond the previous text when the new render starts with that text;
\* otherwise it emits setText(new render) under fullRedrawOnMismatch and raises a
\* non-append error without it
C8_AppendOrSetTextOrRaise ==
  (/\ options.strategy = "smart"
   /\ ev.op = "push"
   /\ ~(options.highlighter = "sync" /\ TailJustClosed)) =>
    LET extends == AgreeBefore(ev.rendered, ev.prevText, Len(ev.prevText))
        suffix == SubSeq(ev.rendered, Len(ev.prevText) + 1, Len(ev.rendered))
    IN /\ extends =>
            /\ ev.sop = "append"
            /\ ev.patch = SurfaceAppend(options.anchor, PrevSurface, suffix).patch
            /\ surface.text = ev.prevText \o suffix
       /\ (~extends /\ options.fullRedrawOnMismatch) =>
            /\ ev.sop = "setText"
            /\ ev.patch = SurfaceSetText(options.anchor, PrevSurface, ev.rendered).patch
            /\ surface.text = ev.rendered
       /\ (~extends /\ ~options.fullRedrawOnMismatch) =>
            /\ ev.threw = "nonappend"
            /\ ev.patch = <<>>
            /\ surface.text = ev.prevText

\* a push that raised the non-append error on an anchored surface
C8_Witness ==
  /\ options.strategy = "smart"
  /\ ev.op = "push"
  /\ ev.threw = "nonappend"
  /\ ev.prevAnchored
  /\ Len(ev.prevText) > 2

\* C9: under redraw every push returns setText of the render of the whole content,
\* every highlight completion emits setText, and no start position is recorded, in the
\* renderer or in a pending task
C9_RedrawAlwaysSetText ==
  options.strategy = "redraw" =>
    /\ ev.op \in {"push", "complete"} =>
         /\ ev.threw = "none"
         /\ ev.sop = "setText"
         /\ ev.patch = SurfaceSetText(options.anchor, PrevSurface, ev.rendered).patch
         /\ surface.text = ev.rendered
         /\ ev.rendered = renderAllView(lastFullRendered)
    /\ codeStartPos = NoPos
    /\ \A i \in 1..Len(pending) : pending[i].startPos = NoPos

\* a redraw push that shortened the text while a code block was loading
C9_Witness ==
  /\ options.strategy = "redraw"
  /\ ev.op = "push"
  /\ ev.sop = "setText"
  /\ lastCodeWasLoading
  /\ ev.prevAnchored
  /\ ~StartsWith(ev.rendered, ev.prevText)

\* seq moves no cursor and erases nothing: no carriage return, and every escape
\* sequence in it is a graphic rendition (final byte m)
NoRepositioning(seq) ==
  \A i \in 1..Len(seq) :
    /\ seq[i] # CR
    /\ seq[i] = ESC => (skipAnsi(seq, i - 1) > 0 /\ seq[skipAnsi(seq, i - 1)] = "m")

\* the begin prologue of the configured anchor
Prologue == SurfaceBegin(options.anchor, SurfaceInit).patch

\* C10: under smart, a push whose render extends the previous text and in which the
\* tail code block does not close returns a patch without cursor repositioning, the
\* begin prologue of the first patch aside: the patch is the appended suffix
C10_AppendOnlyNoRepositioning ==
  (/\ options.strategy = "smart"
   /\ ev.op = "push"
   /\ ev.threw = "none"
   /\ ~TailJustClosed
   /\ AgreeBefore(ev.rendered, ev.prevText, Len(ev.prevText))) =>
    LET suffix == SubSeq(ev.rendered, Len(ev.prevText) + 1, Len(ev.rendered))
        first == ~ev.prevAnchored /\ Len(ev.patch) > 0
        body == IF first THEN SliceFrom(ev.patch, Len(Prologue)) ELSE ev.patch
    IN /\ first => StartsWith(ev.patch, Prologue)
       /\ body = suffix
       /\ NoRepositioning(body)

\* an append of highlighted text to an anchored surface
C10_Witness ==
  /\ options.strategy = "smart"
  /\ ev.op = "push"
  /\ ev.sop = "append"
  /\ ev.prevAnchored
  /\ \E i \in 1..Len(ev.patch) : ev.patch[i] = ESC
  /\ NoRepositioning(ev.patch)

\* the last push closed the tail code block under smart without fullRedrawOnMismatch
StrictClose ==
  options.strategy = "smart" /\ ~options.fullRedrawOnMismatch /\ TailJustClosed

\* the closing push found no start position, or found the text before it changed
PrefixUnresolvable ==
  \/ ev.prevStartPos = NoPos
  \/ ~AgreeBefore(ev.rendered, ev.prevText, posToIndex(ev.prevText, ev.prevStartPos))

\* C11 as stated: under smart without fullRedrawOnMismatch, a push in which the tail
\* code block closes raises a rewrite-prefix error whenever no start position was
\* recorded or the text before it changed, whatever the highlighter: synchronous,
\* future-returning or none (taken here for the positive viewport heights and for no
\* viewport height)
C11_CloseRaisesRewrite ==
  (/\ StrictClose
   /\ options.viewport.set => options.viewport.n > 0
   /\ PrefixUnresolvable) => ev.threw = "rewrite"

\* C11 amended: such a push raises a rewrite-prefix error exactly when the highlighter
\* returned a string for the closed block and the prefix is unresolvable; with a
\* highlighter that returns a future, or with none, it never raises that error: it
\* takes the append rule, which appends or raises the non-append error
C11_SyncCloseRaisesRewrite ==
  StrictClose =>
    /\ ev.threw = "rewrite" <=> (options.highlighter = "sync" /\ PrefixUnresolvable)
    /\ options.highlighter # "sync" =>
         LET extends == AgreeBefore(ev.rendered, ev.prevText, Len(ev.prevText))
         IN /\ extends => (ev.threw = "none" /\ ev.sop = "append")
            /\ ~extends => ev.threw = "nonappend"
    /\ ev.threw = "rewrite" => (ev.patch = <<>> /\ surface.text = ev.prevText)

\* a closing push with a synchronous highlighter that found the text before a recorded
\* start position changed and raised
C11_Witness ==
  /\ StrictClose
  /\ options.highlighter = "sync"
  /\ ev.prevStartPos # NoPos
  /\ PrefixUnresolvable
  /\ ev.threw = "rewrite"

\* a closing push with a synchronous highlighter that found no start position and raised
C11_NoStartPosReached ==
  /\ StrictClose
  /\ options.highlighter = "sync"
  /\ ev.prevStartPos = NoPos
  /\ ev.threw = "rewrite"

\* C12: a highlight failure is swallowed: no error of the highlighter reaches the caller
\* of push, no promise rejection is left without a handler, and a rejected future emits
\* no patch and leaves the text as it was
C12_FailureSwallowed ==
  /\ ev.threw # "highlight"
  /\ unhandled = 0
  /\ ev.op = "reject" => (ev.queued = 0 /\ surface.text = ev.prevText)

\* what every flush that returns satisfies: the tasks it found pending have settled,
\* it returns the patches onPatch received since the previous flush or reset, in
\* order, and it leaves the queue empty
FlushReturnsDelivered ==
  ev.op = "flush" =>
    /\ \A i \in 1..Len(pending) : ~pending[i].awaited
    /\ ev.returned = ev.heard
    /\ patchQueue = <<>>
    /\ ev.threw = "none"

\* C13 as stated: flush resolves only after every task pending at the call has settled,
\* never rejects, returns exactly the patches delivered through onPatch since the
\* previous flush or reset, and leaves the queue empty, so that a flush repeated
\* immediately returns no patch
C13_FlushReturnsAllThenNone ==
  /\ FlushReturnsDelivered
  /\ (ev.op = "flush" /\ ev.flush.again) => ev.returned = <<>>

\* C13 amended: the same, the repeated flush returning no patch when no highlight
\* completion has handed a patch to onPatch since the first flush returned
C13_FlushReturnsAllThenNoneIfQuiet ==
  /\ FlushReturnsDelivered
  /\ (ev.op = "flush" /\ ev.flush.again /\ ev.heard = <<>>) => ev.returned = <<>>

\* a flush returns the patch of a task it awaited while a task created after the call
\* is still pending
C13_Witness ==
  /\ ev.op = "flush"
  /\ ev.flush.found
  /\ Len(ev.returned) > 0
  /\ ev.returned = ev.heard
  /\ Len(pending) > 0

\* a flush repeated at once with nothing pending returns no patch
C13_RepeatReached ==
  /\ ev.op = "flush"
  /\ ev.flush.again
  /\ ~ev.flush.found
  /\ ev.returned = <<>>

\* C14: reset empties the content, the highlight cache and the queue, clears the
\* was-loading flag and the start position and sets the surface text to empty; a flush
\* after it returns none of the patches queued before it
C14_ResetClears ==
  /\ ev.op = "reset" =>
       /\ content = <<>>
       /\ surface.text = <<>>
       /\ highlightCache = {}
       /\ patchQueue = <<>>
       /\ ~lastCodeWasLoading
       /\ codeStartPos = NoPos
  /\ (ev.op = "flush" /\ resets > 0) => ev.returned = ev.heard

\* a reset called with text on the surface, a cached highlight and a queued patch
C14_Witness ==
  /\ ev.op = "reset"
  /\ Len(ev.heard) > 0
  /\ Len(ev.prevText) > 0
  /\ surface.text = <<>>
  /\ patchQueue = <<>>

\* C15: the completion of a task that was in flight when reset was called is not
\* observable: it delivers and queues no patch, leaves the text alone and adds no entry
\* to the cleared cache
C15_OrphanCompletionUnobservable ==
  (ev.op = "complete" /\ ev.task.orphan) =>
    /\ ev.queued = 0
    /\ delivered = <<>> \/ delivered[Len(delivered)] # ev.patch
    /\ surface.text = ev.prevText
    /\ ~ev.newEntry

C17_SurfaceOpsShowText ==
  ev.op = "surface" => ScreenLines(term) = TextLines(surface.text)

\* what returns the cursor to the origin of the surface
originReturn == IF options.anchor = "home" THEN cursorHome ELSE restoreCursor

\* what begin returns
beginPrologue == IF options.anchor = "home" THEN cursorHome ELSE carriageReturn \o saveCursor

\* the patch the last surface call returned came from an anchored surface
AnchoredCall == ev.op = "surface" /\ ev.prevAnchored

\* C18 (as stated): once the surface is anchored, every patch it returns, from
\* any operation, begins by returning the cursor to the origin of the surface
C18_EveryPatchReturnsToOrigin ==
  AnchoredCall => StartsWith(ev.patch, originReturn)

\* C18 (amended): once the surface is anchored, the patches of setText,
\* setTextFrom, replace, delete and of insert with a non-empty insertion begin by
\* returning the cursor to the origin; append returns its delta as it is, insert
\* of nothing returns the empty patch, begin returns the begin prologue
C18_RewritesReturnToOrigin ==
  AnchoredCall =>
    CASE ev.sop \in {"setText", "setTextFrom", "replace", "delete"} ->
           StartsWith(ev.patch, originReturn)
      [] ev.sop = "insert" ->
           IF ev.arg = <<>> THEN ev.patch = <<>> ELSE StartsWith(ev.patch, originReturn)
      [] ev.sop = "append" -> ev.patch = ev.arg
      [] ev.sop = "begin" -> ev.patch = beginPrologue

\* an anchored surface rewrote from a position on its second line
C18_Witness ==
  /\ AnchoredCall
  /\ ev.sop \in {"setTextFrom", "insert", "replace"}
  /\ ev.at.line = 2
  /\ Len(ev.patch) > Len(originReturn)
  /\ StartsWith(ev.patch, originReturn)

\* an anchored surface appended text that does not start at the origin
C18_AppendReached ==
  AnchoredCall /\ ev.sop = "append" /\ ev.arg # <<>> /\ ev.prevText # <<>>

\* the last surface call was setText
SetTextCall == ev.op = "surface" /\ ev.sop = "setText"

\* C19 (as stated): setText(next) sets T to next; unanchored, in either mode, the
\* patch is the begin prologue and next with EL before every newline; anchored,
\* it is origin return, the same decorated text, ED
C19_SetTextPatchPrologueOnly ==
  SetTextCall =>
    /\ surface.text = ev.arg
    /\ ev.patch = IF ~ev.prevAnchored
                    THEN beginPrologue \o withEraseLineToEnd(ev.arg)
                    ELSE originReturn \o withEraseLineToEnd(ev.arg) \o eraseToEnd

\* C19 (amended): setText(next) sets T to next and anchors the surface;
\* unanchored with anchor cursor the patch is the begin prologue and the
\* decorated next; unanchored with anchor home it is the begin prologue, the
\* decorated next and ED; anchored it is origin return, the decorated next, ED
C19_SetTextPatch ==
  SetTextCall =>
    /\ surface.text = ev.arg
    /\ surface.anchored
    /\ ev.patch = IF ~ev.prevAnchored /\ options.anchor = "cursor"
                    THEN beginPrologue \o withEraseLineToEnd(ev.arg)
                    ELSE IF ~ev.prevAnchored
                      THEN beginPrologue \o withEraseLineToEnd(ev.arg) \o eraseToEnd
                      ELSE originReturn \o withEraseLineToEnd(ev.arg) \o eraseToEnd

\* the first call on a home-anchored surface set a text with a newline in it
C19_Witness ==
  /\ SetTextCall
  /\ ~ev.prevAnchored
  /\ options.anchor = "home"
  /\ \E i \in 1..Len(ev.arg) : ev.arg[i] = NL

\* an anchored surface replaced a text by a shorter one with a newline in it
C19_AnchoredReached ==
  /\ SetTextCall
  /\ ev.prevAnchored
  /\ Len(ev.arg) < Len(ev.prevText)
  /\ \E i \in 1..Len(ev.arg) : ev.arg[i] = NL

\* the last surface call was append
AppendCall == ev.op = "surface" /\ ev.sop = "append"

\* C20 (as stated): append(delta) sets T to T followed by delta; unanchored, the
\* patch is the begin prologue and delta and the surface becomes anchored;
\* anchored, the patch is delta as it is
C20_AppendPatchAnyDelta ==
  AppendCall =>
    /\ surface.text = ev.prevText \o ev.arg
    /\ IF ~ev.prevAnchored
         THEN ev.patch = beginPrologue \o ev.arg /\ surface.anchored
         ELSE ev.patch = ev.arg

\* C20 (amended): append of a non-empty delta sets T to T followed by delta;
\* unanchored, the patch is the begin prologue and delta and the surface becomes
\* anchored; anchored, the patch is delta as it is.  append of an empty delta
\* returns the empty patch and leaves T and the anchoring as they were
C20_AppendPatch ==
  AppendCall =>
    IF ev.arg = <<>>
      THEN /\ ev.patch = <<>>
           /\ surface.text = ev.prevText
           /\ surface.anchored = ev.prevAnchored
      ELSE /\ surface.text = ev.prevText \o ev.arg
           /\ surface.anchored
           /\ ev.patch = IF ~ev.prevAnchored THEN beginPrologue \o ev.arg ELSE ev.arg

\* an anchored surface with a text appended a delta with a newline in it
C20_Witness ==
  /\ AppendCall
  /\ ev.prevAnchored
  /\ ev.prevText # <<>>
  /\ \E i \in 1..Len(ev.arg) : ev.arg[i] = NL
  /\ ev.patch = ev.arg

\* a surface that was never anchored was asked to append nothing
C20_EmptyFirstReached ==
  AppendCall /\ ~ev.prevAnchored /\ ev.arg = <<>> /\ ~surface.anchored

\* the first call on a surface appended a non-empty delta
C20_FirstReached ==
  AppendCall /\ ~ev.prevAnchored /\ ev.arg # <<>> /\ surface.anchored

\* the last surface call was insert
InsertCall == ev.op = "surface" /\ ev.sop = "insert"

\* C21: insert(at, ins) sets T to T[..i] + ins + T[i..] with i = posToIndex(T, at);
\* unanchored, its patch is the patch setText(new T) returns in the same anchor
\* mode; anchored, it is moveTo(at), the new T from i with EL before every
\* newline, ED
C21_InsertPatch ==
  InsertCall =>
    /\ surface.text = applyInsert(ev.prevText, ev.at, ev.arg)
    /\ ev.patch =
         IF ~ev.prevAnchored
           THEN SurfaceSetText(options.anchor, PrevSurface, surface.text).patch
           ELSE moveTo(options.anchor, ev.at)
                \o withEraseLineToEnd(SliceFrom(surface.text, posToIndex(ev.prevText, ev.at)))
                \o eraseToEnd

\* C21, the part that holds with anchor cursor and a non-empty insertion
C21_InsertPatchCursorMode ==
  (InsertCall /\ options.anchor = "cursor" /\ ev.arg # <<>>) =>
    /\ surface.text = applyInsert(ev.prevText, ev.at, ev.arg)
    /\ ev.patch =
         IF ~ev.prevAnchored
           THEN SurfaceSetText(options.anchor, PrevSurface, surface.text).patch
           ELSE moveTo(options.anchor, ev.at)
                \o withEraseLineToEnd(SliceFrom(surface.text, posToIndex(ev.prevText, ev.at)))
                \o eraseToEnd

\* the first call on a home-anchored surface inserted a text and its patch
\* saves the cursor instead of going home
C21_HomeInsertSavesCursor ==
  /\ InsertCall
  /\ ~ev.prevAnchored
  /\ options.anchor = "home"
  /\ ev.arg # <<>>
  /\ StartsWith(ev.patch, carriageReturn \o saveCursor)

\* the last surface call was replace or delete
ReplaceCall == ev.op = "surface" /\ ev.sop \in {"replace", "delete"}

\* the half-open index interval of the range of the last replace or delete
RangeStart == Min(posToIndex(ev.prevText, ev.at), posToIndex(ev.prevText, ev.to))
RangeEnd ==
  Min(Len(ev.prevText), Max(posToIndex(ev.prevText, ev.at), posToIndex(ev.prevText, ev.to)) + 1)

\* the text a replace or delete of that range leaves
Replaced == Slice(ev.prevText, 0, RangeStart) \o ev.arg \o SliceFrom(ev.prevText, RangeEnd)

\* the patch that rewrites the new text from the start of the range
ReplacePatch ==
  moveTo(options.anchor, indexToPos(Replaced, RangeStart))
  \o withEraseLineToEnd(SliceFrom(Replaced, RangeStart))
  \o eraseToEnd

\* C22 (as stated): replace(range, replacement) sets T to T[..s] + replacement +
\* T[e..] for the normalised interval [s, e) and returns moveTo(indexToPos(new T,
\* s)), the new T from s with EL before every newline, ED; delete(range) does
\* what replace(range, "") does
C22_ReplacePatchAlways ==
  ReplaceCall => surface.text = Replaced /\ ev.patch = ReplacePatch

\* C22 (amended): the same on an anchored surface; on a surface that is not yet
\* anchored the text is the same and the patch is the one setText(new T) returns
C22_ReplacePatch ==
  ReplaceCall =>
    /\ surface.text = Replaced
    /\ surface.anchored
    /\ ev.patch = IF ev.prevAnchored THEN ReplacePatch
                  ELSE SurfaceSetText(options.anchor, PrevSurface, Replaced).patch

\* an anchored surface replaced a range given end first, not at the start of
\* its text, by a non-empty text
C22_Witness ==
  /\ ReplaceCall
  /\ ev.sop = "replace"
  /\ ev.prevAnchored
  /\ ev.arg # <<>>
  /\ posToIndex(ev.prevText, ev.to) < posToIndex(ev.prevText, ev.at)
  /\ RangeStart > 0

\* an anchored surface deleted a range of two characters
C22_DeleteReached ==
  /\ ReplaceCall
  /\ ev.sop = "delete"
  /\ ev.prevAnchored
  /\ Len(surface.text) = Len(ev.prevText) - 2

\* the first call on a cursor-anchored surface was a replace
C22_FirstReached ==
  ReplaceCall /\ ~ev.prevAnchored /\ options.anchor = "cursor" /\ ev.arg # <<>>

\* the last surface call was setTextFrom on an anchored surface
AnchoredSetTextFromCall == AnchoredCall /\ ev.sop = "setTextFrom"

\* C23: setTextFrom(next, from) on an anchored surface sets T to next and
\* returns moveTo(from), next from index posToIndex(old T, from) with EL before
\* every newline, ED; the characters the patch prints are that tail of next and
\* nothing before it
C23_SetTextFromPatch ==
  AnchoredSetTextFromCall =>
    /\ surface.text = ev.arg
    /\ ev.patch = moveTo(options.anchor, ev.at)
                  \o withEraseLineToEnd(SliceFrom(ev.arg, posToIndex(ev.prevText, ev.at)))
                  \o eraseToEnd
    /\ stripAnsi(ev.patch) = SliceFrom(ev.arg, posToIndex(ev.prevText, ev.at))

\* an anchored surface changed the tail of its text from a position after its
\* first character, and the new tail has a newline in it
C23_Witness ==
  /\ AnchoredSetTextFromCall
  /\ posToIndex(ev.prevText, ev.at) > 0
  /\ ev.arg # ev.prevText
  /\ \E i \in (posToIndex(ev.prevText, ev.at) + 1)..Len(ev.arg) : ev.arg[i] = NL

(* ---------------------------------------------------------------------- *)
(* Viewport clipping                                                       *)
(* ---------------------------------------------------------------------- *)

\* the lines of a text, each taken without its newline; a text that ends in a
\* newline has no empty last line
LinesOf(text) ==
  IF Len(text) > 0 /\ text[Len(text)] = NL
    THEN SplitLines(Slice(text, 0, Len(text) - 1))
    ELSE IF text = <<>> THEN <<>> ELSE SplitLines(text)

\* the lines one after the other, each ended by a newline
RECURSIVE EndEachLine(_)
EndEachLine(ls) ==
  IF Len(ls) = 0 THEN <<>> ELSE ls[1] \o <<NL>> \o EndEachLine(Tail(ls))

\* the last min(n, number of lines) lines of the text, each ended by a newline
LastLines(text, n) ==
  EndEachLine(SubSeq(LinesOf(text), Len(LinesOf(text)) - Min(n, Len(LinesOf(text))) + 1,
                     Len(LinesOf(text))))

\* the renderer has a positive viewport height
Clipping == options.viewport.set /\ options.viewport.n > 0

\* C24: with viewportHeight = N > 0, after every push the surface text is the last
\* min(N, number of lines) lines of the full render, each ended by a newline: it
\* has at most N lines and is the full render when that has at most N lines; the
\* full render is the unclipped render of the content
C24_ViewIsTailOfFull ==
  (ev.op = "push" /\ Clipping) =>
    /\ surface.text = LastLines(lastFullRendered, options.viewport.n)
    /\ Len(LinesOf(surface.text)) <= options.viewport.n
    /\ Len(LinesOf(lastFullRendered)) <= options.viewport.n => surface.text = lastFullRendered
    /\ lastFullRendered = renderAllFull(NodesNow, highlightCache)

\* C24 for the pushes that return
C24_ViewIsTailOfFullUnlessRaised ==
  (ev.op = "push" /\ Clipping /\ ev.threw = "none") =>
    /\ surface.text = LastLines(lastFullRendered, options.viewport.n)
    /\ Len(LinesOf(surface.text)) <= options.viewport.n
    /\ Len(LinesOf(lastFullRendered)) <= options.viewport.n => surface.text = lastFullRendered
    /\ lastFullRendered = renderAllFull(NodesNow, highlightCache)

\* a push returned with a view shorter than the full render
C24_ClippedReached ==
  /\ ev.op = "push"
  /\ Clipping
  /\ ev.threw = "none"
  /\ Len(LinesOf(lastFullRendered)) > options.viewport.n
  /\ surface.text # lastFullRendered

\* a push raised with a viewport height, leaving a view that is not the tail of the
\* full render
C24_RaisedReached ==
  /\ ev.op = "push"
  /\ Clipping
  /\ ev.threw # "none"
  /\ surface.text # LastLines(lastFullRendered, options.viewport.n)

\* C25: with the viewport height unset, or a number less than or equal to 0, the
\* view is the unclipped render: after every push the surface text is the full
\* render
C25_UnclippedWithoutHeight ==
  (ev.op = "push" /\ ~Clipping) => surface.text = lastFullRendered

\* C25 for the unset viewport height and the pushes that return
C25_UnclippedWhenUnset ==
  (ev.op = "push" /\ ~options.viewport.set /\ ev.threw = "none") =>
    surface.text = lastFullRendered

\* a push returned with the viewport height 0: the view is empty, the full render
\* is not
C25_ZeroHeightBlankReached ==
  /\ ev.op = "push"
  /\ options.viewport.set
  /\ options.viewport.n = 0
  /\ ev.threw = "none"
  /\ surface.text = <<>>
  /\ lastFullRendered # <<>>

(* ---------------------------------------------------------------------- *)
(* Anchor home                                                             *)
(* ---------------------------------------------------------------------- *)

\* the patch holds a save-cursor or restore-cursor sequence: ESC 7, ESC 8, CSI s
\* or CSI u
HasSaveOrRestore(patch) ==
  \/ \E i \in 1..(Len(patch) - 1) : patch[i] = ESC /\ patch[i + 1] \in {"7", "8"}
  \/ \E i \in 1..(Len(patch) - 2) :
       patch[i] = ESC /\ patch[i + 1] = "[" /\ patch[i + 2] \in {"s", "u"}

\* the last step was a push or a highlight completion of a home-anchored renderer
HomePatch == ev.op \in {"push", "complete"} /\ options.anchor = "home"

\* C26: with anchor home no patch of the renderer, returned by push or emitted by a
\* highlight completion, holds a save-cursor or restore-cursor sequence; the first
\* patch starts with cursor-home and every return to the origin is cursor-home
C26_HomeNeverSavesCursor ==
  HomePatch =>
    /\ ~HasSaveOrRestore(ev.patch)
    /\ (~ev.prevAnchored /\ ev.threw = "none") => StartsWith(ev.patch, cursorHome)
    /\ ev.sop \in {"setText", "setTextFrom"} => StartsWith(ev.patch, cursorHome)

\* C26 for the renderers whose viewport height is unset or positive
C26_HomeNeverSavesCursorUnlessBlank ==
  (HomePatch /\ (options.viewport.set => options.viewport.n > 0)) =>
    /\ ~HasSaveOrRestore(ev.patch)
    /\ (~ev.prevAnchored /\ ev.threw = "none") => StartsWith(ev.patch, cursorHome)
    /\ ev.sop \in {"setText", "setTextFrom"} => StartsWith(ev.patch, cursorHome)

\* C26 without its clause on the first patch
C26_HomePatchesGoHome ==
  HomePatch =>
    /\ ~HasSaveOrRestore(ev.patch)
    /\ ev.sop \in {"setText", "setTextFrom"} => StartsWith(ev.patch, cursorHome)

\* the first push of a home-anchored renderer returned the empty patch and left
\* the surface unanchored
C26_EmptyFirstPatchReached ==
  HomePatch /\ ev.op = "push" /\ ~ev.prevAnchored /\ ev.threw = "none" /\ ev.patch = <<>>

\* a highlight completion of a home-anchored renderer rewrote a closed block from
\* its start position
C26_HomeRewriteReached ==
  HomePatch /\ ev.op = "complete" /\ ev.sop = "setTextFrom" /\ Len(ev.patch) > Len(cursorHome)

\* a cursor-anchored renderer does save the cursor in its first patch
C26_CursorSavesReached ==
  ev.op = "push" /\ options.anchor = "cursor" /\ HasSaveOrRestore(ev.patch)

(* ---------------------------------------------------------------------- *)
(* Positions and indices                                                   *)
(* ---------------------------------------------------------------------- *)

\* what each character of a text is: part of an escape sequence, a newline, a
\* carriage return or a visible character
RECURSIVE CharKinds(_, _)
CharKinds(text, i) ==
  IF i >= Len(text) THEN <<>>
  ELSE IF skipAnsi(text, i) # -1
    THEN [k \in 1..(skipAnsi(text, i) - i) |-> "esc"] \o CharKinds(text, skipAnsi(text, i))
  ELSE <<IF text[i + 1] = NL THEN "nl" ELSE IF text[i + 1] = CR THEN "cr" ELSE "vis">>
       \o CharKinds(text, i + 1)

\* the index at which the line of index i starts
LineStartOf(kinds, i) ==
  IF \E j \in 1..i : kinds[j] = "nl"
    THEN CHOOSE j \in 1..i : kinds[j] = "nl" /\ \A k \in (j + 1)..i : kinds[k] # "nl"
    ELSE 0

\* the characters between the start of the line of index i and i that take a
\* column: the visible ones, and the carriage returns unless they are ignored
ColumnsBefore(kinds, i, ignoreCr) ==
  Cardinality({j \in (LineStartOf(kinds, i) + 1)..i :
                 kinds[j] = "vis" \/ (kinds[j] = "cr" /\ ~ignoreCr)})

\* the position of index i, counted over the kinds of the characters
PosOfIndex(kinds, i, ignoreCr) ==
  [line |-> 1 + Cardinality({j \in 1..i : kinds[j] = "nl"}),
   column |-> 1 + ColumnsBefore(kinds, i, ignoreCr)]

\* the position lies on a visible character of the text, carriage returns counted
\* as columns or not
OnVisible(text, pos) ==
  \E i \in 0..(Len(text) - 1), ignoreCr \in BOOLEAN :
    /\ CharKinds(text, 0)[i + 1] = "vis"
    /\ PosOfIndex(CharKinds(text, 0), i, ignoreCr) = pos

\* C27: for every text, with escapes, newlines and carriage returns, and every
\* position on a visible character of it, indexToPos of posToIndex of the
\* position is the position
C27_PosRoundTrip ==
  (calc.fn = "posToIndex" /\ OnVisible(calc.text, calc.pos)) => calc.back = calc.pos

\* a position on a visible character of the second line of a text that holds an
\* escape sequence
C27_Witness ==
  /\ calc.fn = "posToIndex"
  /\ OnVisible(calc.text, calc.pos)
  /\ calc.pos.line = 2
  /\ \E i \in 1..Len(calc.text) : CharKinds(calc.text, 0)[i] = "esc"
  /\ calc.back = calc.pos

\* a position past the end of its line does not come back
C27_PastEndReached ==
  calc.fn = "posToIndex" /\ ~OnVisible(calc.text, calc.pos) /\ calc.back # calc.pos

\* the last function applied was the deletion of a range and the insertion of the
\* removed characters
DeleteInsertCall == calc.fn = "applyReplace"

\* the position of the range, start or end, whose index is the smaller one
NormalisedStartPos ==
  IF posToIndex(calc.text, calc.pos) <= posToIndex(calc.text, calc.to)
    THEN calc.pos ELSE calc.to

\* C28: for every text and range, deleting the range with applyReplace(T, r, '')
\* and inserting the removed characters with applyInsert at the normalised start
\* of the range gives back T: at the position of the start index in the shortened
\* text, and at the position of the range that the start index came from
C28_DeleteInsertRoundTrip ==
  DeleteInsertCall =>
    /\ calc.again = calc.text
    /\ applyInsert(calc.out, NormalisedStartPos, calc.removed) = calc.text

\* a range given end first, that starts after the first character and spans a
\* newline, was deleted and inserted again
C28_Witness ==
  /\ DeleteInsertCall
  /\ calc.index > 0
  /\ Len(calc.removed) >= 2
  /\ \E i \in 1..Len(calc.removed) : calc.removed[i] = NL
  /\ posToIndex(calc.text, calc.to) < posToIndex(calc.text, calc.pos)
  /\ calc.out # calc.text
  /\ calc.again = calc.text

\* a range that starts on an escape sequence was deleted and inserted again
C28_EscapeReached ==
  /\ DeleteInsertCall
  /\ calc.removed # <<>>
  /\ calc.removed[1] = ESC
  /\ calc.again = calc.text

\* the last function applied was visibleLength, with stripAnsi beside it
VisibleLengthCall == calc.fn = "visibleLength"

\* the carriage returns of a text
CountCr(text) == Cardinality({i \in 1..Len(text) : text[i] = CR})

\* C29 (as stated): for every string with escapes and carriage returns,
\* visibleLength is the length of stripAnsi of it minus the number of its
\* carriage returns
C29_VisibleLengthMinusCr ==
  VisibleLengthCall => calc.n = Len(calc.stripped) - CountCr(calc.text)

\* C29 (amended): visibleLength is the length of stripAnsi of the string, which
\* has neither the escape sequences nor the carriage returns: the number of its
\* characters that are neither part of an escape sequence nor a carriage return
C29_VisibleLengthIsStrippedLength ==
  VisibleLengthCall =>
    /\ calc.n = Len(calc.stripped)
    /\ calc.n = Cardinality({i \in 1..Len(calc.text) :
                               CharKinds(calc.text, 0)[i] \in {"vis", "nl"}})
    /\ \A i \in 1..Len(calc.stripped) : calc.stripped[i] # CR

\* a string with an escape sequence, a carriage return and a visible character
C29_Witness ==
  /\ VisibleLengthCall
  /\ CountCr(calc.text) > 0
  /\ \E i \in 1..Len(calc.text) : CharKinds(calc.text, 0)[i] = "esc"
  /\ \E i \in 1..Len(calc.text) : CharKinds(calc.text, 0)[i] = "cr"
  /\ calc.n > 0
  /\ calc.n = Len(calc.stripped)

\* a visible character of the text lies at the position, the carriage returns
\* taking no column
OnVisibleIgnoringCr(text, pos) ==
  \E i \in 0..(Len(text) - 1) :
    /\ CharKinds(text, 0)[i + 1] = "vis"
    /\ PosOfIndex(CharKinds(text, 0), i, TRUE) = pos

\* C30: columns count visible characters only: the column of indexToPos(T, i),
\* minus 1, is the number of visible characters between the start of the line of
\* i and i, escape sequences skipped and carriage returns ignored, and posToIndex
\* counts the same way
C30_ColumnsCountVisible ==
  /\ calc.fn = "indexToPos" =>
       calc.back.column - 1 = ColumnsBefore(CharKinds(calc.text, 0), calc.index, TRUE)
  /\ (calc.fn = "posToIndex" /\ OnVisibleIgnoringCr(calc.text, calc.pos)) =>
       PosOfIndex(CharKinds(calc.text, 0), calc.index, TRUE) = calc.pos

\* what the functions do: every character outside an escape sequence other than
\* the newline takes a column, the carriage return included
C30_ColumnsCountCr ==
  /\ calc.fn = "indexToPos" =>
       calc.back.column - 1 = ColumnsBefore(CharKinds(calc.text, 0), calc.index, FALSE)
  /\ (calc.fn = "posToIndex" /\ OnVisible(calc.text, calc.pos)) =>
       PosOfIndex(CharKinds(calc.text, 0), calc.index, FALSE) = calc.pos

\* C30 for the texts without a carriage return
C30_ColumnsCountVisibleWithoutCr ==
  CountCr(calc.text) = 0 => C30_ColumnsCountVisible

\* indexToPos gave a carriage return a column
C30_CrColumnReached ==
  /\ calc.fn = "indexToPos"
  /\ calc.back.column - 1 > ColumnsBefore(CharKinds(calc.text, 0), calc.index, TRUE)
  /\ calc.index > 0
  /\ calc.text[calc.index] = CR

(* ---------------------------------------------------------------------- *)
(* Highlighter calls                                                       *)
(* ---------------------------------------------------------------------- *)

\* C34: the highlighter is called for a code block only when its key is neither
\* cached nor in flight: every task a call has created was created for a key
\* missing from the cache, the task of a closing tail included, and the key of a
\* tail task just created is not in flight
C34_HighlightOnlyNewKeys ==
  /\ \A i \in 1..Len(pending) : pending[i].fresh
  /\ (ev.op = "push" /\ ev.closes /\ ev.threw = "none" /\ options.highlighter = "async") =>
       NewTask.key \notin inflightHighlights

\* C34 for the calls of the tree walk
C34_WalkHighlightsOnlyNewKeys ==
  \A i \in 1..Len(pending) : pending[i].kind = "walk" => pending[i].fresh

\* a closing push called the highlighter for a key that was cached
C34_CachedKeyHighlightedReached ==
  /\ ev.op = "push"
  /\ ev.closes
  /\ options.highlighter = "async"
  /\ Len(pending) > 0
  /\ NewTask.kind = "tail"
  /\ ~NewTask.fresh
  /\ CacheHas(highlightCache, NewTask.key)

(* ---------------------------------------------------------------------- *)
(* A push that raises                                                      *)
(* ---------------------------------------------------------------------- *)

\* the last push raised the rewrite-prefix error or the non-append error
PushRaised == ev.op = "push" /\ ev.threw \in {"rewrite", "nonappend"}

\* C38: a push that raises leaves the renderer as it was before the call: the
\* content, the surface text, the full render, the was-loading flag and the start
\* position are unchanged and no patch is emitted
C38_RaisingPushChangesNothing ==
  PushRaised =>
    /\ content = ev.prevContent
    /\ surface.text = ev.prevText
    /\ lastFullRendered = ev.prevFull
    /\ lastCodeWasLoading = ev.prevWasLoading
    /\ codeStartPos = ev.prevStartPos
    /\ ev.patch = <<>>

\* what a push that raises does keep: the surface, and with it the text on
\* screen, and it emits no patch
C38_RaisingPushKeepsSurface ==
  PushRaised =>
    /\ surface.text = ev.prevText
    /\ surface.anchored = ev.prevAnchored
    /\ ev.patch = <<>>

\* a push raised after it had grown the content and replaced the full render
C38_ContentGrewReached ==
  PushRaised /\ content # ev.prevContent /\ lastFullRendered # ev.prevFull

\* a push raised the rewrite-prefix error after clearing the was-loading flag
C38_FlagClearedReached ==
  PushRaised /\ ev.threw = "rewrite" /\ ev.prevWasLoading /\ ~lastCodeWasLoading

\* a push raised the non-append error after changing the was-loading flag or the
\* start position
C38_NonAppendFlagReached ==
  /\ PushRaised
  /\ ev.threw = "nonappend"
  /\ (lastCodeWasLoading # ev.prevWasLoading \/ codeStartPos # ev.prevStartPos)

\* the last step gave the caller a patch: push returns it, a completion hands it to
\* onPatch or queues it for flush
PatchEmitted == ev.op \in {"push", "complete"} /\ Len(ev.patch) > 0

\* an emitted patch restores the cursor only if this patch or an earlier emitted one
\* saved it
RestoreOnlyAfterSave == (PatchEmitted /\ HasRestore(ev.patch)) => ev.saved

\* the step after a reset that emits a patch saves the cursor again
AnchorAfterReset ==
  (ev.op = "reset" /\ ev'.op \in {"push", "complete"} /\ Len(ev'.patch) > 0)
    => HasSave(ev'.patch)

\* C39: with anchor = cursor, a patch holding the restore-cursor sequence is emitted
\* only after an emitted patch held the save-cursor sequence, and the first non-empty
\* patch after a reset re-establishes the anchor
C39_RestoreAfterSaveAndReanchor == [](RestoreOnlyAfterSave) /\ [][AnchorAfterReset]_vars

\* C39, first half alone
C39_RestoreOnlyAfterSave == RestoreOnlyAfterSave

\* C39, second half alone
C39_AnchorAfterReset == [][AnchorAfterReset]_vars

\* C39: a patch restores a cursor that no emitted patch ever saved
C39_RestoreWithoutSaveReached == PatchEmitted /\ HasRestore(ev.patch) /\ ~ev.saved

\* C39: a push after a reset appends its text where the cursor happens to be
C39_AppendAfterResetReached ==
  /\ ev.op = "push" /\ ev.sop = "append" /\ Len(ev.patch) > 0
  /\ resets > 0 /\ ~HasSave(ev.patch) /\ ~HasRestore(ev.patch)
  /\ ev.prevText = <<>> /\ ev.prevAnchored

\* C40: after reset() getFullRenderedText() is empty and equal to getRenderedText(),
\* and the in-flight map and the pending set hold no task of the stream before it
C40_ResetForgetsStream ==
  ev.op = "reset" =>
    /\ lastFullRendered = <<>>
    /\ lastFullRendered = surface.text
    /\ inflightHighlights = {}
    /\ pending = <<>>

\* C40: what reset() does clear: the content, the flag, the start position, the cache,
\* the queue and the surface's text
C40_ResetClears ==
  ev.op = "reset" =>
    /\ content = <<>> /\ surface.text = <<>>
    /\ ~lastCodeWasLoading /\ codeStartPos = NoPos
    /\ highlightCache = {} /\ patchQueue = <<>>

\* C40: after a reset the full render of the stream before it is still readable
C40_FullRenderSurvivesReached ==
  ev.op = "reset" /\ lastFullRendered # <<>> /\ surface.text = <<>>

\* C40: after a reset a highlight of the stream before it is still in flight and pending
C40_TaskSurvivesReached ==
  ev.op = "reset" /\ inflightHighlights # {} /\ Len(pending) > 0

\* ---------------------------------------------------------------------------
\* markdown-node-utils.ts: findStreamingLoadingCodeBlock over node trees
\* ---------------------------------------------------------------------------

\* the inline node types of the source that the trees below use
inlineNodeTypes == {"text", "link"}

MaxItems == 2
MaxTop == 2

Node(type, loading, children, items, rows, cells, header) ==
  [type |-> type, loading |-> loading, children |-> children, items |-> items,
   rows |-> rows, cells |-> cells, header |-> header]

\* nodes with no container field; header is <<>> when the node has none and <<h>>
\* when it is the object h
LeafNodes ==
  {Node("text", FALSE, <<>>, <<>>, <<>>, <<>>, <<>>),
   Node("paragraph", FALSE, <<>>, <<>>, <<>>, <<>>, <<>>),
   Node("code_block", FALSE, <<>>, <<>>, <<>>, <<>>, <<>>),
   Node("code_block", TRUE, <<>>, <<>>, <<>>, <<>>, <<>>)}

LeafSeqs(n) == UNION {[1..k -> LeafNodes] : k \in 0..n}

\* containers: a block and an inline node with children, a list with items, a row
\* with cells, a table with rows and a header object
ContainerNodes ==
  {Node(t, FALSE, c, <<>>, <<>>, <<>>, <<>>) :
     t \in {"blockquote", "link"}, c \in LeafSeqs(MaxItems) \ {<<>>}}
  \cup {Node("list", FALSE, <<>>, c, <<>>, <<>>, <<>>) : c \in LeafSeqs(MaxItems) \ {<<>>}}
  \cup {Node("table_row", FALSE, <<>>, <<>>, <<>>, c, <<>>) : c \in LeafSeqs(1) \ {<<>>}}
  \cup {Node("table", FALSE, <<>>, <<>>, r, <<>>, h) : r \in LeafSeqs(1), h \in LeafSeqs(1)}

Forests == UNION {[1..k -> LeafNodes \cup ContainerNodes] : k \in 1..MaxTop}

Step(field, i) == [field |-> field, index |-> i]

RECURSIVE visitNode(_, _, _)
RECURSIVE visitMaybeArray(_, _, _, _, _)

\* visitMaybeArray(value, visit): visit every element from the i-th on, in order
visitMaybeArray(value, i, path, field, lastBlock) ==
  IF i > Len(value) THEN lastBlock
  ELSE visitMaybeArray(value, i + 1, path, field,
                       visitNode(value[i], path \o <<Step(field, i)>>, lastBlock))

\* the inner function visit: a node that is not of an inline type becomes lastBlock,
\* then children, items, rows and cells are visited, then the header object
visitNode(node, path, lastBlock) ==
  LET own == IF node.type \notin inlineNodeTypes
               THEN [path |-> path, type |-> node.type, loading |-> node.loading]
               ELSE lastBlock
      c == visitMaybeArray(node.children, 1, path, "children", own)
      i == visitMaybeArray(node.items, 1, path, "items", c)
      r == visitMaybeArray(node.rows, 1, path, "rows", i)
      l == visitMaybeArray(node.cells, 1, path, "cells", r)
  IN IF Len(node.header) > 0
       THEN visitNode(node.header[1], path \o <<Step("header", 1)>>, l)
       ELSE l

\* findStreamingLoadingCodeBlock that returns the last code block marked loading,
\* whatever block comes after it
RECURSIVE lastLoadingFrom(_, _, _)
lastLoadingFrom(node, path, lastBlock) ==
  LET own == IF node.type = "code_block" /\ node.loading
               THEN [path |-> path, type |-> node.type, loading |-> node.loading]
               ELSE lastBlock
      RECURSIVE each(_, _, _, _)
      each(value, k, field, acc) ==
        IF k > Len(value) THEN acc
        ELSE each(value, k + 1, field,
                  lastLoadingFrom(value[k], path \o <<Step(field, k)>>, acc))
  IN each(node.header, 1, "header",
          each(node.cells, 1, "cells",
               each(node.rows, 1, "rows",
                    each(node.items, 1, "items", each(node.children, 1, "children", own)))))

findStreamingLoadingCodeBlockAnyLoading(nodes) ==
  LET RECURSIVE top(_, _)
      top(k, acc) ==
        IF k > Len(nodes) THEN acc
        ELSE top(k + 1, lastLoadingFrom(nodes[k], <<Step("nodes", k)>>, acc))
  IN top(1, NoBlock)

\* findStreamingLoadingCodeBlock(nodes) on trees: the node the walk ends on when
\* it is a loading code block, otherwise null
findStreamingLoadingCodeBlockInTree(nodes) ==
  LET lastBlock == visitMaybeArray(nodes, 1, <<>>, "nodes", NoBlock)
  IN IF lastBlock.type = "code_block" /\ lastBlock.loading THEN lastBlock ELSE NoBlock

ApplyFindStreamingLoadingCodeBlock ==
  /\ calc.fn = "none"
  /\ CalcStep([NoCalc EXCEPT !.nodes = calc.nodes,
                             !.fn = "findStreamingLoadingCodeBlock",
                             !.found = findStreamingLoadingCodeBlockInTree(calc.nodes)])

InitNodes ==
  /\ options = [strategy |-> "smart", anchor |-> "cursor", viewport |-> [set |-> FALSE, n |-> 0],
                fullRedrawOnMismatch |-> TRUE, highlighter |-> "none"]
  /\ content = <<>>
  /\ lastCodeWasLoading = FALSE
  /\ codeStartPos = NoPos
  /\ surface = SurfaceInit
  /\ lastFullRendered = <<>>
  /\ highlightCache = {}
  /\ inflightHighlights = {}
  /\ pending = <<>>
  /\ patchQueue = <<>>
  /\ term = TermInit
  /\ delivered = <<>>
  /\ flushing = NoFlush
  /\ unhandled = 0
  /\ resets = 0
  /\ calls = 0
  /\ session = NoSession
  /\ ev = NoEvent
  /\ calc \in {[NoCalc EXCEPT !.nodes = f] : f \in Forests}

NextNodes == ApplyFindStreamingLoadingCodeBlock

SpecNodes == InitNodes /\ [][NextNodes]_vars

RECURSIVE DescentOf(_, _)
RECURSIVE DescentOfAll(_, _, _, _)

\* the nodes below and including one node, in the order of the descent: the node,
\* its children, items, rows and cells, then its header
DescentOf(node, path) ==
  <<[path |-> path, type |-> node.type, loading |-> node.loading]>>
    \o DescentOfAll(node.children, 1, path, "children")
    \o DescentOfAll(node.items, 1, path, "items")
    \o DescentOfAll(node.rows, 1, path, "rows")
    \o DescentOfAll(node.cells, 1, path, "cells")
    \o DescentOfAll(node.header, 1, path, "header")

DescentOfAll(value, i, path, field) ==
  IF i > Len(value) THEN <<>>
  ELSE DescentOf(value[i], path \o <<Step(field, i)>>)
         \o DescentOfAll(value, i + 1, path, field)

Descent(nodes) == DescentOfAll(nodes, 1, <<>>, "nodes")

\* the places of the non-inline nodes in a descent
BlockPlaces(d) == {k \in 1..Len(d) : d[k].type \notin inlineNodeTypes}

Greatest(S) == CHOOSE k \in S : \A j \in S : j <= k

FindCall == calc.fn = "findStreamingLoadingCodeBlock"

\* the claim's reading of the call on the descent d of its argument
FindsLastBlock(d) ==
  LET blocks == BlockPlaces(d)
      ends == blocks # {} /\ d[Greatest(blocks)].type = "code_block"
                /\ d[Greatest(blocks)].loading
  IN /\ (calc.found # NoBlock) <=> ends
     /\ ends => calc.found = d[Greatest(blocks)]
     /\ calc.found.type \notin inlineNodeTypes

\* C35: findStreamingLoadingCodeBlock returns a node exactly when the last non-inline
\* node of the descent through children, items, rows, cells and header is a code
\* block with loading = true, and then returns that node; no other loading code
\* block is returned and no inline node counts as the last block
C35_FindsLastLoadingBlock == FindCall => FindsLastBlock(Descent(calc.nodes))

\* C35: a call whose argument holds a loading code block that is returned, inside a
\* container and after an inline node
C35_Witness ==
  /\ FindCall /\ calc.found # NoBlock /\ Len(calc.found.path) > 1
  /\ \E k \in 1..Len(calc.nodes) : calc.nodes[k].type \in inlineNodeTypes

\* C35: a loading code block that is followed by another block is not returned
C35_EarlierLoadingReached ==
  /\ FindCall /\ calc.found = NoBlock
  /\ \E k \in 1..(Len(calc.nodes) - 1) :
       calc.nodes[k].type = "code_block" /\ calc.nodes[k].loading

\* C35: a loading code block followed by inline nodes only is returned
C35_InlineAfterReached ==
  /\ FindCall /\ Len(calc.nodes) = 2 /\ calc.found = [path |-> <<Step("nodes", 1)>>,
                                                      type |-> "code_block", loading |-> TRUE]
  /\ calc.nodes[2].type = "link"

\* on nodes without container fields the walk is the test of the last node that the
\* renderer's flat node lists use
C35_FlatAgrees ==
  (FindCall /\ \A k \in 1..Len(calc.nodes) :
                 calc.nodes[k] \in LeafNodes /\ calc.nodes[k].type # "text")
    => (calc.found # NoBlock <=> findStreamingLoadingCodeBlock(calc.nodes) = Len(calc.nodes))

(* ---------------------------------------------------------------------- *)
(* stream-to-terminal.ts, terminal-markdown-stream.ts, terminal-session.ts *)
(* ---------------------------------------------------------------------- *)

clearScreen == <<ESC, "[", "2", "J">>
eraseScrollback == <<ESC, "[", "3", "J">>
hideCursor == <<ESC, "[", "?", "2", "5", "l">>
showCursor == <<ESC, "[", "?", "2", "5", "h">>
altScreenEnter == <<ESC, "[", "?", "1", "0", "4", "9", "h">>
altScreenExit == <<ESC, "[", "?", "1", "0", "4", "9", "l">>
syncStart == <<ESC, "[", "?", "2", "0", "2", "6", "h">>
syncEnd == <<ESC, "[", "?", "2", "0", "2", "6", "l">>

\* the rows defaultHeightFromRows is given when process.stdout reports none
StdoutRows == 24

defaultHeightFromRows(rows) == Max(6, Min(40, rows - 2))

\* createTerminalMarkdownStream: the streaming policy of the options
useAltScreenForStreaming(policy) == policy.finalOnly /\ policy.isTTY

noScrollDuringStreaming(policy) == policy.finalOnly /\ policy.isTTY

\* the options createTerminalMarkdownStream gives the renderer
RendererOptions(policy, highlighter) ==
  [strategy |-> IF policy.finalOnly /\ policy.isTTY THEN "redraw" ELSE "smart",
   anchor |-> IF policy.finalOnly /\ policy.isTTY THEN "home" ELSE "cursor",
   viewport |-> IF policy.finalOnly /\ policy.isTTY
                  THEN [set |-> TRUE, n |-> defaultHeightFromRows(StdoutRows)]
                  ELSE [set |-> FALSE, n |-> 0],
   fullRedrawOnMismatch |-> TRUE,
   highlighter |-> highlighter]

\* patch.replaceAll('\n', carriageReturn + cursorDown(1))
RECURSIVE ReplaceLinefeeds(_)
ReplaceLinefeeds(patch) ==
  IF Len(patch) = 0 THEN <<>>
  ELSE (IF Head(patch) = NL THEN carriageReturn \o cursorDown(1) ELSE <<Head(patch)>>)
         \o ReplaceLinefeeds(Tail(patch))

\* writePatch that leaves the linefeeds of the patch in place
PatchTextWithLinefeeds(policy, patch) == syncStart \o patch \o syncEnd

\* writePatch: what it hands to term.writeRaw for a non-empty patch (sync is on)
PatchText(policy, patch) ==
  syncStart
    \o (IF noScrollDuringStreaming(policy) THEN ReplaceLinefeeds(patch) ELSE patch)
    \o syncEnd

\* term.writeRaw: an empty chunk is not written
writeRaw(written, by, chunk, patch) ==
  IF Len(chunk) = 0 THEN written
  ELSE Append(written, [by |-> by, text |-> chunk, patch |-> patch])

\* writePatch: an empty patch is not written
writePatch(written, policy, patch) ==
  IF Len(patch) = 0 THEN written
  ELSE writeRaw(written, "patch", PatchText(policy, patch), patch)

RECURSIVE writePatches(_, _, _)
writePatches(written, policy, patches) ==
  IF Len(patches) = 0 THEN written
  ELSE writePatches(writePatch(written, policy, Head(patches)), policy, Tail(patches))

\* the patches the renderer has produced, in order
Produce(produced, patch) == IF Len(patch) = 0 THEN produced ELSE Append(produced, patch)

\* start(): term.start() with hideCursor on and clear off, then the fresh line
StartWrites(written, policy) ==
  LET a == IF useAltScreenForStreaming(policy)
             THEN writeRaw(written, "start", altScreenEnter, <<>>) ELSE written
      b == writeRaw(a, "start", hideCursor, <<>>)
  IN IF policy.startOnNewLine /\ ~useAltScreenForStreaming(policy)
       THEN writeRaw(b, "start", <<NL>>, <<>>) ELSE b

EndWithNewline(text) == IF Len(text) > 0 /\ text[Len(text)] = NL THEN text ELSE text \o <<NL>>

\* term.stop()
TermStopWrites(written, policy) ==
  LET a == writeRaw(written, "stop", syncEnd \o showCursor, <<>>)
  IN IF useAltScreenForStreaming(policy) THEN writeRaw(a, "stop", altScreenExit, <<>>) ELSE a

\* stop() that prints the final render before it leaves the alternate screen
StopWritesFinalInside(written, policy, full) ==
  LET finalRendered == IF policy.finalOnly THEN full ELSE <<>>
  IN TermStopWrites(writeRaw(written, "final", EndWithNewline(finalRendered), <<>>), policy)

\* stop(): the final render over the anchored region, or the alternate screen
\* cleared and left and the final render printed after it
StopWrites(written, policy, full) ==
  LET finalRendered == IF policy.finalOnly THEN full ELSE <<>>
  IN IF Len(finalRendered) > 0 /\ ~useAltScreenForStreaming(policy)
       THEN TermStopWrites(writeRaw(written, "final",
                                    restoreCursor \o eraseToEnd \o EndWithNewline(finalRendered),
                                    <<>>), policy)
     ELSE LET a == IF policy.finalOnly /\ useAltScreenForStreaming(policy)
                     THEN writeRaw(written, "stop",
                                   clearScreen \o cursorHome \o eraseScrollback, <<>>)
                     ELSE written
              b == TermStopWrites(a, policy)
          IN IF Len(finalRendered) > 0 /\ useAltScreenForStreaming(policy)
               THEN writeRaw(IF policy.startOnNewLine THEN writeRaw(b, "stop", <<NL>>, <<>>)
                             ELSE b,
                             "final", EndWithNewline(finalRendered), <<>>)
               ELSE b

\* forEachChunk that takes any value for a source of no chunks
ValidSourceAlways(source) == TRUE

\* forEachChunk: the source is a string, an async iterable or an iterable
ValidSource(source) == source.kind \in {"string", "async", "iterable"}

\* a try block with no finally
OnThrowNoFinally(outcome) == [pc |-> "rejected", outcome |-> outcome]

\* try / finally: where an exception inside the try block continues
OnThrow(outcome) == [pc |-> "finally", outcome |-> outcome]

Renderer == <<options, content, lastCodeWasLoading, codeStartPos, surface, lastFullRendered,
              highlightCache, inflightHighlights, pending, patchQueue, term, delivered,
              flushing, unhandled>>

SessionEvent(op) ==
  [NoEvent EXCEPT !.op = op, !.pushed = ev.pushed, !.saved = ev.saved,
                  !.rendered = ev.rendered]

\* const s = createTerminalMarkdownStream(options); s.start()
SessionStart ==
  /\ session.pc = "created"
  /\ session' = [session EXCEPT !.pc = "streaming", !.log = Append(@, <<"start">>),
                                !.written = StartWrites(@, session.policy)]
  /\ ev' = SessionEvent("start")
  /\ UNCHANGED Renderer
  /\ UNCHANGED <<resets, calls, calc>>

\* forEachChunk finds no kind of source it knows, or the source throws when asked
\* for its next chunk
SessionSourceThrows ==
  /\ session.pc = "streaming"
  /\ ~ValidSource(session.source) \/ session.source.fails = session.i + 1
  /\ session' = [session EXCEPT
                   !.pc = OnThrow("source").pc,
                   !.outcome = IF ValidSource(session.source) THEN "source" ELSE "invalid"]
  /\ ev' = SessionEvent("source")
  /\ UNCHANGED Renderer
  /\ UNCHANGED <<resets, calls, calc>>

\* the session after s.push(chunk) and the onChunkPushed hook: push raised, or the
\* patch is written and the hook raised, or the loop goes on
AfterPush(s, chunk, threw, patch) ==
  IF threw # "none"
    THEN [s EXCEPT !.pc = OnThrow("push").pc, !.outcome = "push",
                   !.log = Append(@, <<"push", chunk>>)]
  ELSE [s EXCEPT !.pc = IF s.hook = s.i + 1 THEN OnThrow("hook").pc ELSE s.pc,
                 !.outcome = IF s.hook = s.i + 1 THEN "hook" ELSE s.outcome,
                 !.i = s.i + 1,
                 !.log = Append(@, <<"push", chunk>>),
                 !.written = writePatch(@, s.policy, patch),
                 !.produced = Produce(@, patch)]

\* the callback of forEachChunk on the next chunk
SessionPush ==
  /\ session.pc = "streaming"
  /\ ValidSource(session.source)
  /\ session.i < Len(session.source.chunks)
  /\ session.source.fails # session.i + 1
  /\ PushApply(PushResult(session.source.chunks[session.i + 1]))
  /\ session' = AfterPush(session, session.source.chunks[session.i + 1], ev'.threw, ev'.patch)

\* the source is exhausted: await s.flush() calls renderer.flush()
SessionFlushCall ==
  /\ session.pc = "streaming"
  /\ ValidSource(session.source)
  /\ session.i = Len(session.source.chunks)
  /\ session.source.fails # session.i + 1
  /\ FlushCallRenderer
  /\ session' = [session EXCEPT !.pc = "flushing", !.log = Append(@, <<"flush">>)]

\* renderer.flush() resolves: s.flush() writes the patches it returned
SessionFlushReturn ==
  /\ session.pc = "flushing"
  /\ FlushReturnRenderer
  /\ session' = [session EXCEPT !.pc = "finally", !.outcome = "ok",
                                !.log = Append(@, <<"flushed">>),
                                !.written = writePatches(@, session.policy, patchQueue)]

\* finally: s.stop()
SessionStop ==
  /\ session.pc = "finally"
  /\ session' = [session EXCEPT
                   !.pc = IF session.outcome = "ok" THEN "returned" ELSE "rejected",
                   !.log = Append(@, <<"stop">>),
                   !.written = StopWrites(@, session.policy, lastFullRendered)]
  /\ ev' = SessionEvent("stop")
  /\ UNCHANGED Renderer
  /\ UNCHANGED <<resets, calls, calc>>

\* a highlight resolves: emitPatch queues the patch and hands it to writePatch
SessionComplete ==
  \E i \in 1..Len(pending) :
    /\ CompleteTask(i)
    /\ session' = [session EXCEPT !.written = writePatch(@, session.policy, ev'.patch),
                                  !.produced = Produce(@, ev'.patch)]

\* a highlight rejects
SessionReject == \E i \in 1..Len(pending) : RejectTask(i) /\ UNCHANGED session

MaxPieces == 2

\* the documents streamed through a session
SessionDoc1 == <<FENCE, NL, "x", NL, FENCE, NL>>
SessionDoc2 == <<"a", NL, NL, "b", NL>>
SessionDocs == {SessionDoc1, SessionDoc2}

\* the ways to cut a document into at most n non-empty chunks
RECURSIVE Chunkings(_, _)
Chunkings(d, n) ==
  IF Len(d) = 0 THEN {<<>>}
  ELSE IF n = 0 THEN {}
  ELSE UNION {{<<SubSeq(d, 1, k)>> \o rest :
                 rest \in Chunkings(SubSeq(d, k + 1, Len(d)), n - 1)} : k \in 1..Len(d)}

\* MarkdownChunkSource: a string, an iterable or async iterable that yields its
\* chunks and may throw when asked for chunk number `fails`, or any other value
Sources ==
  {[kind |-> "string", chunks |-> <<d>>, fails |-> 0] : d \in SessionDocs}
  \cup {[kind |-> k, chunks |-> c, fails |-> f] :
          k \in {"iterable", "async"},
          c \in UNION {Chunkings(d, MaxPieces) : d \in SessionDocs},
          f \in 0..(MaxPieces + 1)}
  \cup {[kind |-> "invalid", chunks |-> <<>>, fails |-> 0]}

Policies == [finalOnly : BOOLEAN, isTTY : BOOLEAN, startOnNewLine : BOOLEAN]

InitSession ==
  /\ session \in {[NoSession EXCEPT !.pc = "created", !.policy = p, !.source = src,
                                    !.hook = h] :
                    p \in Policies, src \in Sources, h \in 0..MaxPieces}
  /\ options \in {RendererOptions(session.policy, h) : h \in {"none", "async", "throws"}}
  /\ content = <<>>
  /\ lastCodeWasLoading = FALSE
  /\ codeStartPos = NoPos
  /\ surface = SurfaceInit
  /\ lastFullRendered = <<>>
  /\ highlightCache = {}
  /\ inflightHighlights = {}
  /\ pending = <<>>
  /\ patchQueue = <<>>
  /\ term = TermInit
  /\ delivered = <<>>
  /\ flushing = NoFlush
  /\ unhandled = 0
  /\ resets = 0
  /\ calls = 0
  /\ calc = NoCalc
  /\ ev = NoEvent

NextSession ==
  \/ SessionStart \/ SessionSourceThrows \/ SessionPush \/ SessionFlushCall
  \/ SessionFlushReturn \/ SessionStop \/ SessionComplete \/ SessionReject

SpecSession == InitSession /\ [][NextSession]_vars

\* the push calls a run makes on the first n chunks of the source
PushCalls(n) == [k \in 1..n |-> <<"push", session.source.chunks[k]>>]

\* the calls of a whole run that pushed n chunks: start, the pushes, flush and its
\* resolution when nothing raised, stop
WholeRun(n, ok) ==
  <<<<"start">>>> \o PushCalls(n)
    \o (IF ok THEN <<<<"flush">>, <<"flushed">>>> ELSE <<>>) \o <<<<"stop">>>>

SessionOver == session.pc \in {"returned", "rejected"}

\* runs the calls made so far can be the beginning of: a run that raised after any
\* number of chunks, or the run that pushed them all and flushed
CallsBegin(n, ok) ==
  /\ ok => n = Len(session.source.chunks)
  /\ StartsWith(WholeRun(n, ok), session.log)

\* C31: for every source and every outcome, streamMarkdownToTerminal starts the
\* session once before the first push, pushes the chunks in source order, awaits flush
\* after the last chunk when nothing raised, and stops the session once, after the
\* last push and after flush
C31_StartPushFlushStop ==
  /\ \E n \in 0..Len(session.source.chunks), ok \in BOOLEAN : CallsBegin(n, ok)
  /\ SessionOver =>
       \E n \in 0..Len(session.source.chunks) :
         /\ session.log = WholeRun(n, session.pc = "returned")
         /\ session.pc = "returned" => n = Len(session.source.chunks)

\* C31: a run of two chunks that returned
C31_Witness ==
  /\ session.pc = "returned" /\ Len(session.source.chunks) = 2
  /\ session.log = WholeRun(2, TRUE)

\* C31: runs that an exception of the source, of push and of onChunkPushed ended
C31_SourceRaisedReached ==
  session.pc = "rejected" /\ session.outcome = "source" /\ session.i = 1

C31_PushRaisedReached ==
  /\ session.pc = "rejected" /\ session.outcome = "push"
  /\ Len(session.source.chunks) = 2 /\ session.log = WholeRun(2, FALSE)

C31_HookRaisedReached ==
  session.pc = "rejected" /\ session.outcome = "hook" /\ session.log = WholeRun(1, FALSE)

\* C32: with a source that is no string, iterable or async iterable the call fails
\* with the invalid-source error, pushes no chunk and stops the session it started
C32_InvalidSourceStops ==
  session.source.kind = "invalid" =>
    /\ session.pc \notin {"flushing", "returned"}
    /\ content = <<>> /\ session.i = 0
    /\ session.pc \in {"finally", "rejected"} => session.outcome = "invalid"
    /\ session.pc = "rejected" => session.log = <<<<"start">>, <<"stop">>>>

\* C32: the call on an invalid source has failed
C32_Witness ==
  /\ session.source.kind = "invalid" /\ session.pc = "rejected"
  /\ session.outcome = "invalid" /\ session.log = <<<<"start">>, <<"stop">>>>

FinalOnlyOnTTY == session.policy.finalOnly /\ session.policy.isTTY

Holds(text, ch) == \E k \in 1..Len(text) : text[k] = ch

\* the writes that are the alternate-screen enter and the alternate-screen exit
EnterWrites == {k \in 1..Len(session.written) : session.written[k].text = altScreenEnter}

ExitWrites == {k \in 1..Len(session.written) : session.written[k].text = altScreenExit}

\* the writes made inside the alternate screen
InsideWrites ==
  {k \in 1..Len(session.written) :
     (\E e \in EnterWrites : e < k) /\ (\A x \in ExitWrites : k < x)}

FinalWrites == {k \in 1..Len(session.written) : session.written[k].by = "final"}

RECURSIVE CountOf(_, _)
CountOf(text, ch) ==
  IF Len(text) = 0 THEN 0
  ELSE (IF Head(text) = ch THEN 1 ELSE 0) + CountOf(Tail(text), ch)

\* a written patch has a carriage return and a cursor-down for every linefeed of the
\* renderer's patch and is otherwise as long
LinefeedsReplaced(w) ==
  /\ ~Holds(w.text, NL)
  /\ CountOf(w.text, CR) = CountOf(w.patch, CR) + CountOf(w.patch, NL)
  /\ CountOf(w.text, "B") = CountOf(w.patch, "B") + CountOf(w.patch, NL)
  /\ Len(w.text) = Len(w.patch) + 4 * CountOf(w.patch, NL) + Len(syncStart) + Len(syncEnd)

\* C33: in finalOnly mode on a TTY no linefeed is written between the alternate-screen
\* enter and exit, every linefeed of a patch being replaced by carriage return and
\* cursor-down, and after the exit the final full render is written exactly once
C33_NoLinefeedThenFinalOnce ==
  FinalOnlyOnTTY =>
    /\ \A k \in InsideWrites : ~Holds(session.written[k].text, NL)
    /\ \A k \in 1..Len(session.written) :
         session.written[k].by = "patch" => LinefeedsReplaced(session.written[k])
    /\ Cardinality(EnterWrites) <= 1 /\ Cardinality(ExitWrites) <= 1
    /\ \A k \in FinalWrites : \E x \in ExitWrites : x < k
    /\ (SessionOver /\ Len(lastFullRendered) > 0) => Cardinality(FinalWrites) = 1
    /\ (ev.op = "stop" /\ Len(lastFullRendered) > 0) =>
         \E k \in FinalWrites : session.written[k].text = EndWithNewline(lastFullRendered)

\* C33: a finalOnly run on a TTY has returned, after a patch with a linefeed was
\* written inside the alternate screen
C33_Witness ==
  /\ FinalOnlyOnTTY /\ session.pc = "returned" /\ ev.op = "stop"
  /\ \E k \in InsideWrites :
       session.written[k].by = "patch" /\ Holds(session.written[k].patch, NL)
  /\ Cardinality(FinalWrites) = 1

\* the renderer's patches behind the patch writes, in the order of the writes
RECURSIVE PatchesWritten(_)
PatchesWritten(written) ==
  IF Len(written) = 0 THEN <<>>
  ELSE (IF Head(written).by = "patch" THEN <<Head(written).patch>> ELSE <<>>)
         \o PatchesWritten(Tail(written))

\* C36: every patch the renderer produces is written to the terminal exactly once
\* and in the order the renderer produced it; flush does not write again a patch of
\* a highlight completion that was written when it was emitted
C36_EveryPatchWrittenOnce ==
  session.pc # "none" => PatchesWritten(session.written) = session.produced

\* C36: until flush returns, the patches written are the patches produced
C36_WrittenOnceBeforeFlush ==
  (session.pc \in {"created", "streaming", "flushing"})
    => PatchesWritten(session.written) = session.produced

\* C36: flush has written a completion's patch a second time
C36_WrittenTwiceReached ==
  /\ ev.op = "flush" /\ Len(ev.returned) > 0
  /\ Len(PatchesWritten(session.written)) = Len(session.produced) + Len(ev.returned)

\* C37: once streamMarkdownToTerminal has stopped the session nothing more is written
\* to the terminal stream, whether it returned or raised
C37_NothingWrittenAfterStop == [][SessionOver => session'.written = session.written]_vars

\* C37 for the runs that returned
C37_NothingWrittenAfterReturn ==
  [][session.pc = "returned" => session'.written = session.written]_vars

\* C37: a highlight of a run that raised completes after stop and its patch is
\* written
C37_LatePatchReached ==
  /\ session.pc = "rejected" /\ ev.op = "complete" /\ Len(ev.patch) > 0
  /\ session.written[Len(session.written)].by = "patch"
  /\ \E k \in 1..(Len(session.written) - 1) : session.written[k].by \in {"stop", "final"}

====
